---------------------------- MODULE ContentProofs ----------------------------
(***************************************************************************)
(* Proofs about what is kept outside the server's database: the references *)
(* of roles to prompt modules, the worktrees of agents, roles under git,   *)
(* the answers that the browser sends, the layouts that it shows, the      *)
(* files of a role, and the default that a role is compared with.  For     *)
(* each, an inductive invariant, one lemma per kind of step, and the       *)
(* properties of the component's module as theorems for every value of its *)
(* constants.                                                              *)
(***************************************************************************)
EXTENDS PromptModules, Worktrees, RoleRepo, AskAnswers, Layout, RoleTree, RoleLineage,
        FiniteSetTheorems, WellFoundedInduction, TLAPS

-----------------------------------------------------------------------------
(* The references of roles to prompt modules (PromptModules).              *)

\* A reference of a tree: on, off, or none.
RefForms == {"on", "off", "absent"}

\* The release is one of those there are, and a pin names a tree that was committed.
PmTypeOK ==
  /\ release \in DOMAIN PmShipped
  /\ trees \in Seq([PmNames -> RefForms])
  /\ pinnedAt \in [PmRoles -> 0 .. Len(trees)]

\* The first release seeds references to what it ships, so all of them resolve.
LEMMA PmInitTyped == PmInit => PmTypeOK /\ RefsResolve
<1> SUFFICES ASSUME PmInit PROVE PmTypeOK /\ RefsResolve
  OBVIOUS
<1>1. PICK r \in PmRoles : pinnedAt = [s \in PmRoles |-> IF s = r THEN 1 ELSE 0]
  BY DEF PmInit
<1> DEFINE seeded == [n \in PmNames |-> IF n \in PmShipped[1] THEN "on" ELSE "absent"]
<1>2. seeded \in [PmNames -> RefForms]
  BY DEF RefForms
<1>3. trees = <<seeded>> /\ Len(trees) = 1 /\ trees[1] = seeded
  BY DEF PmInit
<1>4. trees \in Seq([PmNames -> RefForms])
  <2> HIDE DEF seeded
  <2> QED BY <1>2, <1>3
<1>5. release \in DOMAIN PmShipped /\ release = 1
  BY PmSets DEF PmInit
<1>6. pinnedAt \in [PmRoles -> 0 .. Len(trees)]
  BY <1>1, <1>3
<1>7. ASSUME NEW p \in Unresolved PROVE FALSE
  <2>1. p[1] \in PmRoles /\ p[2] \in PmNames /\ lists(p[1], p[2]) /\ p[2] \notin resolvePromptModuleCatalog
    BY <1>7 DEF Unresolved, unknown
  <2>2. pinnedAt[p[1]] = 1
    BY <2>1, <1>1 DEF lists, stands
  <2>3. p[2] \in PmShipped[1]
    BY <2>1, <2>2, <1>3 DEF lists, seedRefs
  <2> QED BY <2>1, <2>3, <1>5 DEF resolvePromptModuleCatalog, enumerateDefaultPromptModules
<1> QED BY <1>4, <1>5, <1>6, <1>7 DEF PmTypeOK, RefsResolve

\* A commit on the references of a role appends a tree and moves, if anything, the
\* pin of that role to it; the catalog stays what it was.
LEMMA CommitRefsTyped ==
  ASSUME PmTypeOK, NEW r \in PmRoles, NEW to \in [PmNames -> RefForms], NEW cached, NEW reach,
         CommitRefs(r, to, cached, reach)
  PROVE  /\ PmTypeOK'
         /\ trees'[Len(trees) + 1] = to
         /\ \A s \in PmRoles : s # r => pinnedAt'[s] = pinnedAt[s]
         /\ \A k \in 1 .. Len(trees) : trees'[k] = trees[k]
         /\ pinnedAt'[r] \in {pinnedAt[r], Len(trees) + 1}
         /\ resolvePromptModuleCatalog' = resolvePromptModuleCatalog
<1>1. trees' = Append(trees, to) /\ UNCHANGED <<release, seeds, moduleDir>>
  BY DEF CommitRefs
<1>2. pinnedAt' = IF reach = "committed" THEN pinnedAt ELSE [pinnedAt EXCEPT ![r] = Len(trees) + 1]
  BY DEF CommitRefs
<1>3. trees \in Seq([PmNames -> RefForms]) /\ Len(trees) \in Nat
  BY DEF PmTypeOK
<1>4. /\ trees' \in Seq([PmNames -> RefForms]) /\ Len(trees') = Len(trees) + 1
      /\ trees'[Len(trees) + 1] = to /\ \A k \in 1 .. Len(trees) : trees'[k] = trees[k]
  BY <1>1, <1>3
<1>5. /\ pinnedAt' \in [PmRoles -> 0 .. Len(trees')]
      /\ \A s \in PmRoles : s # r => pinnedAt'[s] = pinnedAt[s]
      /\ pinnedAt'[r] \in {pinnedAt[r], Len(trees) + 1}
  BY <1>2, <1>3, <1>4 DEF PmTypeOK
<1>6. release' \in DOMAIN PmShipped
  BY <1>1 DEF PmTypeOK
<1>7. resolvePromptModuleCatalog' = resolvePromptModuleCatalog
  BY <1>1 DEF resolvePromptModuleCatalog, enumerateDefaultPromptModules
<1> QED BY <1>4, <1>5, <1>6, <1>7 DEF PmTypeOK

\* So nothing becomes unresolved by a commit whose references were resolved, or
\* were references of the role before it.
LEMMA CommitRefsUnresolved ==
  ASSUME PmTypeOK, NEW r \in PmRoles, NEW to \in [PmNames -> RefForms], NEW cached, NEW reach,
         CommitRefs(r, to, cached, reach), NEW p \in Unresolved', p \notin Unresolved
  PROVE  p = <<r, p[2]>> /\ p[2] \in PmNames /\ to[p[2]] # "absent" /\ p[2] \notin resolvePromptModuleCatalog
<1>1. /\ p \in PmRoles \X PmNames /\ stands(p[1])' /\ trees'[pinnedAt'[p[1]]][p[2]] # "absent"
      /\ p[2] \notin resolvePromptModuleCatalog'
  BY DEF Unresolved, unknown, lists, seedRefs
<1>2. p[1] \in PmRoles /\ p[2] \in PmNames /\ p = <<p[1], p[2]>>
  BY <1>1
<1>3. p[2] \notin resolvePromptModuleCatalog
  BY <1>1, CommitRefsTyped
<1>4. ASSUME pinnedAt'[p[1]] = pinnedAt[p[1]] PROVE FALSE
  <2>1. pinnedAt[p[1]] \in 1 .. Len(trees)
    BY <1>1, <1>2, <1>4 DEF stands, PmTypeOK
  <2>2. trees[pinnedAt[p[1]]][p[2]] # "absent"
    BY <1>1, <1>4, <2>1, CommitRefsTyped
  <2>3. lists(p[1], p[2])
    BY <2>1, <2>2 DEF lists, stands, seedRefs
  <2> QED BY <1>1, <1>2, <1>3, <2>3 DEF Unresolved, unknown
<1>5. p[1] = r /\ pinnedAt'[r] = Len(trees) + 1
  BY <1>2, <1>4, CommitRefsTyped
<1>6. trees'[Len(trees) + 1] = to
  BY CommitRefsTyped
<1> QED BY <1>1, <1>2, <1>3, <1>5, <1>6

\* The references of a pinned role are one of the three forms.
LEMMA RefOf ==
  ASSUME PmTypeOK, NEW r \in PmRoles, stands(r)
  PROVE  seedRefs(r) \in [PmNames -> RefForms]
BY DEF PmTypeOK, stands, seedRefs

\* A reference is made to any name: one that the catalog does not have counts as loose.
LEMMA AddRefStep ==
  ASSUME PmTypeOK, RefsResolve, NEW r \in PmRoles, NEW n \in PmNames, NEW on \in {"on", "off"},
         NEW reach, AddRef(r, n, on, reach)
  PROVE  PmTypeOK' /\ RefsResolve'
<1> DEFINE to == [seedRefs(r) EXCEPT ![n] = on]
           cached == getOrLoad(pinnedAt[r])
<1>1. seedRefs(r) \in [PmNames -> RefForms] /\ stands(r)
  BY RefOf DEF AddRef
<1>2. to \in [PmNames -> RefForms] /\ \A m \in PmNames : m # n => to[m] = seedRefs(r)[m]
  BY <1>1 DEF RefForms
<1>3. CommitRefs(r, to, cached, reach)
  BY DEF AddRef
<1>4. ASSUME NEW p \in Unresolved' PROVE p \in loose \cup {<<r, n>>}
  <2>1. SUFFICES ASSUME p \notin Unresolved PROVE p = <<r, n>>
    BY DEF RefsResolve
  <2>2. p = <<r, p[2]>> /\ p[2] \in PmNames /\ to[p[2]] # "absent" /\ p[2] \notin resolvePromptModuleCatalog
    <3> HIDE DEF to, cached
    <3> QED BY <1>2, <1>3, <2>1, CommitRefsUnresolved
  <2>3. ASSUME p[2] # n PROVE FALSE
    <3>1. lists(r, p[2])
      <4> HIDE DEF to
      <4> QED BY <1>1, <1>2, <2>2, <2>3 DEF lists
    <3> QED BY <2>1, <2>2, <3>1 DEF Unresolved, unknown
  <2> QED BY <2>2, <2>3
<1>5. PmTypeOK'
  <2> HIDE DEF to, cached
  <2> QED BY <1>2, <1>3, CommitRefsTyped
<1>6. RefsResolve'
  BY <1>4 DEF AddRef, RefsResolve
<1> QED BY <1>5, <1>6

\* Switching a reference on or off makes none.
LEMMA ToggleRefStep ==
  ASSUME PmTypeOK, RefsResolve, NEW r \in PmRoles, NEW n \in PmNames, NEW on \in {"on", "off"},
         NEW reach, ToggleRef(r, n, on, reach)
  PROVE  PmTypeOK' /\ RefsResolve'
<1> DEFINE to == [seedRefs(r) EXCEPT ![n] = on]
           cached == getOrLoad(pinnedAt[r])
<1>1. seedRefs(r) \in [PmNames -> RefForms] /\ stands(r) /\ lists(r, n)
  BY RefOf DEF ToggleRef, lists
<1>2. to \in [PmNames -> RefForms] /\ \A m \in PmNames : m # n => to[m] = seedRefs(r)[m]
  BY <1>1 DEF RefForms
<1>3. CommitRefs(r, to, cached, reach)
  BY DEF ToggleRef
<1>4. ASSUME NEW p \in Unresolved' PROVE p \in loose
  <2>1. SUFFICES ASSUME p \notin Unresolved PROVE FALSE
    BY DEF RefsResolve
  <2>2. p = <<r, p[2]>> /\ p[2] \in PmNames /\ to[p[2]] # "absent" /\ p[2] \notin resolvePromptModuleCatalog
    <3> HIDE DEF to, cached
    <3> QED BY <1>2, <1>3, <2>1, CommitRefsUnresolved
  <2>3. lists(r, p[2])
    <3> HIDE DEF to
    <3> QED BY <1>1, <1>2, <2>2 DEF lists
  <2> QED BY <2>1, <2>2, <2>3 DEF Unresolved, unknown
<1>5. PmTypeOK'
  <2> HIDE DEF to, cached
  <2> QED BY <1>2, <1>3, CommitRefsTyped
<1>6. RefsResolve'
  BY <1>4 DEF ToggleRef, RefsResolve
<1> QED BY <1>5, <1>6

\* An edit of the list makes a reference as AddRef does, or takes one away.
LEMMA EditRefsStep ==
  ASSUME PmTypeOK, RefsResolve, NEW r \in PmRoles, NEW n \in PmNames, NEW on \in RefForms,
         NEW reach, EditRefs(r, n, on, reach)
  PROVE  PmTypeOK' /\ RefsResolve'
<1> DEFINE to == [seedRefs(r) EXCEPT ![n] = on]
<1>1. seedRefs(r) \in [PmNames -> RefForms] /\ stands(r)
  BY RefOf DEF EditRefs
<1>2. to \in [PmNames -> RefForms] /\ \A m \in PmNames : m # n => to[m] = seedRefs(r)[m]
  BY <1>1 DEF RefForms
<1>3. CommitRefs(r, to, cacheRow, reach)
  BY DEF EditRefs
<1>4. ASSUME NEW p \in Unresolved', p \notin Unresolved PROVE p = <<r, n>> /\ ~lists(r, n)
  <2>2. p = <<r, p[2]>> /\ p[2] \in PmNames /\ to[p[2]] # "absent" /\ p[2] \notin resolvePromptModuleCatalog
    <3> HIDE DEF to
    <3> QED BY <1>2, <1>3, <1>4, CommitRefsUnresolved
  <2>3. ~lists(r, p[2])
    BY <1>4, <2>2 DEF Unresolved, unknown
  <2>4. ASSUME p[2] # n PROVE FALSE
    <3> HIDE DEF to
    <3> QED BY <1>1, <1>2, <2>2, <2>3, <2>4 DEF lists
  <2> QED BY <2>2, <2>3, <2>4
<1>5. PmTypeOK'
  <2> HIDE DEF to
  <2> QED BY <1>2, <1>3, CommitRefsTyped
<1>6. RefsResolve'
  BY <1>4 DEF EditRefs, RefsResolve
<1> QED BY <1>5, <1>6

\* A fork has the references of its source, the loose ones too.
LEMMA ForkStep ==
  ASSUME PmTypeOK, RefsResolve, NEW r \in PmRoles, NEW s \in PmRoles, NEW reach, Fork(r, s, reach)
  PROVE  PmTypeOK' /\ RefsResolve'
<1> DEFINE to == seedRefs(r)
<1>1. to \in [PmNames -> RefForms] /\ stands(r)
  BY RefOf DEF Fork
<1>2. CommitRefs(s, to, cacheRow, reach)
  BY DEF Fork
<1>3. ASSUME NEW p \in Unresolved', p \notin Unresolved
      PROVE  p = <<s, p[2]>> /\ p[2] \in PmNames /\ <<r, p[2]>> \in loose
  <2>1. p = <<s, p[2]>> /\ p[2] \in PmNames /\ to[p[2]] # "absent" /\ p[2] \notin resolvePromptModuleCatalog
    <3> HIDE DEF to
    <3> QED BY <1>1, <1>2, <1>3, CommitRefsUnresolved
  <2>2. <<r, p[2]>> \in Unresolved
    BY <1>1, <2>1 DEF Unresolved, unknown, lists
  <2> QED BY <2>1, <2>2 DEF RefsResolve
<1>4. PmTypeOK'
  <2> HIDE DEF to
  <2> QED BY <1>1, <1>2, CommitRefsTyped
<1>5. loose' = (loose \cup {<<s, n>> : n \in {m \in PmNames : <<r, m>> \in loose}}) \cap Unresolved'
  BY DEF Fork
<1>6. ASSUME NEW p \in Unresolved' PROVE p \in loose'
  BY <1>3, <1>5, <1>6 DEF RefsResolve
<1> QED BY <1>4, <1>6 DEF RefsResolve

\* The unresolved pairs are told by the trees, the pins and the catalog.
LEMMA SamePins ==
  ASSUME UNCHANGED <<trees, pinnedAt>>, NEW p \in Unresolved',
         p \notin Unresolved
  PROVE  p[2] \in resolvePromptModuleCatalog \ resolvePromptModuleCatalog'
BY DEF Unresolved, unknown, lists, stands, seedRefs

\* Every step keeps them: only a deletion and a boot take modules from the catalog,
\* and the guard of a deletion sees every role whose pin has a row in the cache.
LEMMA PmStep == PmTypeOK /\ RefsResolve /\ [PmNext]_pmVars => PmTypeOK' /\ RefsResolve'
<1> SUFFICES ASSUME PmTypeOK, RefsResolve, [PmNext]_pmVars PROVE PmTypeOK' /\ RefsResolve'
  OBVIOUS
<1>1. ASSUME NEW n \in PmNames, CreateModule(n) PROVE PmTypeOK' /\ RefsResolve'
  <2>1. Unresolved' \subseteq Unresolved
    BY <1>1, SamePins DEF CreateModule, resolvePromptModuleCatalog, enumerateDefaultPromptModules
  <2> QED BY <1>1, <2>1 DEF CreateModule, PmTypeOK, RefsResolve
<1>2. ASSUME NEW n \in PmNames, EditModule(n) PROVE PmTypeOK' /\ RefsResolve'
  <2>1. Unresolved' \subseteq Unresolved
    BY <1>2, SamePins DEF EditModule, resolvePromptModuleCatalog, enumerateDefaultPromptModules
  <2> QED BY <1>2, <2>1 DEF EditModule, PmTypeOK, RefsResolve
<1>3. ASSUME NEW n \in PmNames, NEW force \in BOOLEAN, DeleteModule(n, force) PROVE PmTypeOK' /\ RefsResolve'
  <2>1. ASSUME NEW p \in Unresolved', p \notin Unresolved, ~force PROVE cacheRow[pinnedAt[p[1]]] = 0
    <3>1. p[2] = n /\ n \notin enumerateDefaultPromptModules
      BY <1>3, <2>1, SamePins DEF DeleteModule, resolvePromptModuleCatalog, enumerateDefaultPromptModules
    <3>2. p[1] \in PmRoles /\ lists(p[1], n)
      BY <1>3, <3>1 DEF DeleteModule, Unresolved, unknown, lists, stands, seedRefs
    <3> QED BY <1>3, <2>1, <3>1, <3>2 DEF DeleteModule, rolesReferencingModule
  <2>2. RefsResolve'
    BY <1>3, <2>1 DEF DeleteModule, RefsResolve
  <2> QED BY <1>3, <2>2 DEF DeleteModule, PmTypeOK
<1>4. ASSUME NEW r \in PmRoles, DeletesRole(r) PROVE PmTypeOK' /\ RefsResolve'
  <2>1. PmTypeOK'
    BY <1>4 DEF DeletesRole, PmTypeOK
  <2>2. ASSUME NEW p \in Unresolved' PROVE p \in Unresolved
    <3>1. p \in PmRoles \X PmNames /\ lists(p[1], p[2])' /\ p[2] \notin resolvePromptModuleCatalog'
      BY DEF Unresolved, unknown
    <3>2. p[1] \in PmRoles /\ p[1] # r /\ pinnedAt'[p[1]] = pinnedAt[p[1]]
      BY <1>4, <3>1 DEF DeletesRole, PmTypeOK, lists, stands
    <3>3. lists(p[1], p[2])
      BY <1>4, <3>1, <3>2 DEF DeletesRole, lists, stands, seedRefs
    <3> QED BY <1>4, <3>1, <3>3 DEF DeletesRole, Unresolved, unknown, resolvePromptModuleCatalog,
                                   enumerateDefaultPromptModules
  <2> QED BY <1>4, <2>1, <2>2 DEF DeletesRole, RefsResolve
<1>5. ASSUME NEW r \in PmRoles, ReadsContent(r) PROVE PmTypeOK' /\ RefsResolve'
  <2>1. Unresolved' \subseteq Unresolved
    BY <1>5, SamePins DEF ReadsContent, resolvePromptModuleCatalog, enumerateDefaultPromptModules
  <2> QED BY <1>5, <2>1 DEF ReadsContent, PmTypeOK, RefsResolve
<1>6. ASSUME NEW next \in DOMAIN PmShipped, Boots(next) PROVE PmTypeOK' /\ RefsResolve'
  <2>1. ASSUME NEW p \in Unresolved', p \notin Unresolved PROVE p[2] \in PmShipped[release] \ PmShipped[next]
    BY <1>6, <2>1, SamePins DEF Boots, resolvePromptModuleCatalog, enumerateDefaultPromptModules
  <2>2. RefsResolve'
    BY <1>6, <2>1 DEF Boots, RefsResolve
  <2> QED BY <1>6, <2>2 DEF Boots, PmTypeOK
<1>7. CASE UNCHANGED pmVars
  <2>1. Unresolved' = Unresolved
    BY <1>7 DEF pmVars, Unresolved, unknown, lists, stands, seedRefs, resolvePromptModuleCatalog,
                enumerateDefaultPromptModules
  <2> QED BY <1>7, <2>1 DEF pmVars, PmTypeOK, RefsResolve
<1> QED
  BY <1>1, <1>2, <1>3, <1>4, <1>5, <1>6, <1>7, AddRefStep, ToggleRefStep, EditRefsStep, ForkStep
  DEF PmNext, AgentEditsModule, RefForms

\* A module that a role lists is in the catalog that a spawn reads
\* (workspace-prompt-module-catalog.ts), over edits, forks, deletions, releases and
\* crashes anywhere between a commit and the row that warms the cache: the guard of
\* a deletion (rolesReferencingModule) misses no role whose pin has a row, and the
\* exceptions are those of RefsResolve.
THEOREM ModulesResolve == PmSpec => []RefsResolve
<1>1. PmSpec => [](PmTypeOK /\ RefsResolve)
  BY PmInitTyped, PmStep, PTL DEF PmSpec
<1> QED BY <1>1, PTL

-----------------------------------------------------------------------------
(* The worktrees of agents (Worktrees).                                    *)

\* The segments of a branch or a path: names, and the two words of a backfilled row.
WtWords == STRING \cup {"clobber", "siblings"}
WtPaths == Seq(WtWords)

\* A sequence of two.
LEMMA PairOfWords == \A S : \A x, y \in S : <<x, y>> \in Seq(S) /\ <<x, y>> # <<>>
  OBVIOUS

\* Sequences of names are sequences of segments.
LEMMA WordSeqs == Seq(STRING) \subseteq WtPaths
<1> SUFFICES ASSUME NEW s \in Seq(STRING) PROVE s \in WtPaths
  OBVIOUS
<1>1. Len(s) \in Nat /\ DOMAIN s = 1 .. Len(s) /\ s \in [1 .. Len(s) -> STRING]
  OBVIOUS
<1>2. STRING \subseteq WtWords
  BY DEF WtWords
<1> HIDE DEF WtWords
<1>3. s \in [1 .. Len(s) -> WtWords]
  BY <1>1, <1>2
<1> QED BY <1>1, <1>3 DEF WtPaths

\* Where a request is: its worktree is added and being installed, or its row is read.
installing(h) == att[h].st = "install"
reading(h) == att[h].st = "read"

\* What a row says of a worktree: none, or a branch that has a name.
Identities == {NoTree} \cup {i \in [branch : WtPaths, path : WtPaths] : i.branch # <<>>}

\* The two forms of a request under way.
WtInstall == [st : {"install"}, agent : WtAgents, branch : WtPaths, path : WtPaths, first : BOOLEAN]
WtRead == [st : {"read"}, agent : WtAgents, mode : {"attach", "resume"}, seen : Identities,
           pol : [on : BOOLEAN, prefix : BranchPrefixes, root : Roots]]

\* The types of the policy, the rows and the requests.
WtTypeOK ==
  /\ policy \in [on : BOOLEAN, prefix : BranchPrefixes, root : Roots]
  /\ ident \in [WtAgents -> Identities]
  /\ att \in [WtReqs -> {Idle} \cup WtRead \cup WtInstall]

\* A branch on the disk or in the hands of a request is one of the repository, and
\* no two requests install on the same one: git refuses to add a branch that exists,
\* and rollback and a clean-up take the branch only of a request that is over.
OwnBranches ==
  /\ <<>> \notin refs
  /\ Range(disk) \subseteq refs
  /\ \A h \in WtReqs : installing(h) => att[h].branch \in refs
  /\ \A h, g \in WtReqs : installing(h) /\ installing(g) /\ h # g => att[h].branch # att[g].branch

\* A branch that is being installed on is checked out nowhere else.
OneDirectory ==
  \A h \in WtReqs : installing(h) /\ att[h].branch \notin stranded =>
    \A q \in DOMAIN disk : disk[q] = att[h].branch => q = att[h].path

\* A request acts for the branch of its agent's row, unless that branch has been
\* given up for another one meanwhile.
RowFollowed ==
  \A h \in WtReqs :
    /\ reading(h) /\ att[h].seen # NoTree /\ att[h].seen.branch \notin stranded
         => att[h].seen.branch = ident[att[h].agent].branch
    /\ installing(h) /\ ~att[h].first /\ att[h].branch \notin stranded
         => att[h].branch = ident[att[h].agent].branch

\* NoResidue alone is not inductive: what rollback removes is the directory and the
\* branch that the request remembers, so the request must remember the only
\* directory of a branch that no row and no other request stands on.
WtIInv == WtTypeOK /\ OwnBranches /\ OneDirectory /\ RowFollowed /\ NoResidue

\* A request is idle or has one of the two forms.
LEMMA AttForms ==
  ASSUME WtTypeOK, NEW h \in WtReqs
  PROVE  /\ att[h] = Idle \/ att[h] \in WtRead \/ att[h] \in WtInstall
         /\ reading(h) => att[h] \in WtRead
         /\ installing(h) => att[h] \in WtInstall
<1>1. att[h] = Idle \/ att[h] \in WtRead \/ att[h] \in WtInstall
  BY DEF WtTypeOK, WtRead, WtInstall
<1>2. Idle.st = "none"
  BY DEF Idle
<1>3. att[h] \in WtRead => att[h].st = "read"
  BY DEF WtRead
<1>4. att[h] \in WtInstall => att[h].st = "install"
  BY DEF WtInstall
<1> QED BY <1>1, <1>2, <1>3, <1>4 DEF reading, installing

\* Giving a request one of the forms keeps the type.
LEMMA AttSet ==
  ASSUME WtTypeOK, NEW h \in WtReqs, NEW v, v = Idle \/ v \in WtRead \/ v \in WtInstall
  PROVE  [att EXCEPT ![h] = v] \in [WtReqs -> {Idle} \cup WtRead \cup WtInstall]
BY DEF WtTypeOK, WtRead, WtInstall

\* What a policy names is a branch with a name, and a path.
LEMMA WtNamed ==
  ASSUME NEW pol \in [on : BOOLEAN, prefix : BranchPrefixes, root : Roots], NEW a \in WtAgents
  PROVE  /\ branchFor(pol, a) \in WtPaths /\ branchFor(pol, a) # <<>>
         /\ pathFor(pol, a) \in WtPaths
<1>1. pol.prefix \in Seq(WtWords) /\ pol.root \in WtWords /\ Label[a] \in WtWords
  BY WtNames, WordSeqs DEF WtWords, WtPaths
<1>2. branchFor(pol, a) \in Seq(WtWords) /\ Len(branchFor(pol, a)) = Len(pol.prefix) + 1
  BY <1>1 DEF branchFor
<1>3. Len(pol.prefix) \in Nat /\ Len(<<>>) = 0
  BY <1>1
<1>4. branchFor(pol, a) # <<>>
  BY <1>2, <1>3
<1>5. pathFor(pol, a) \in Seq(WtWords)
  BY <1>1, PairOfWords DEF pathFor
<1> QED BY <1>2, <1>4, <1>5 DEF WtPaths

\* A path is under itself.
LEMMA OwnPrefix == \A p \in WtPaths : IsPrefix(p, p)
  BY DEF IsPrefix, WtPaths

\* A boot gives identities of two segments, and takes none away.
LEMMA Backfills ==
  ASSUME NEW pol, NEW A, NEW id \in [WtAgents -> Identities]
  PROVE  /\ backfilled(pol, A, id) \in [WtAgents -> Identities]
         /\ \A a \in WtAgents : id[a] = NoTree \/ backfilled(pol, A, id)[a] = id[a]
<1>1. ASSUME NEW a \in WtAgents
      PROVE  [branch |-> <<"clobber", Label[a]>>, path |-> <<"siblings", Label[a]>>] \in Identities
  <2>1. Label[a] \in WtWords /\ "clobber" \in WtWords /\ "siblings" \in WtWords
    BY WtNames DEF WtWords
  <2>2. /\ <<"clobber", Label[a]>> \in Seq(WtWords) /\ <<"siblings", Label[a]>> \in Seq(WtWords)
        /\ <<"clobber", Label[a]>> # <<>>
    BY <2>1, PairOfWords
  <2> QED BY <2>2 DEF Identities, WtPaths
<1> QED BY <1>1 DEF backfilled

\* A repository without worktrees, and rows that a migration backfilled.
LEMMA WtInitInv == WtInit => WtIInv
<1> SUFFICES ASSUME WtInit PROVE WtIInv
  OBVIOUS
<1>1. att = [h \in WtReqs |-> Idle] /\ refs = {} /\ disk = << >>
  BY DEF WtInit
<1>2. policy \in [on : BOOLEAN, prefix : BranchPrefixes, root : Roots]
  BY DEF WtInit
<1>3. ident \in [WtAgents -> Identities]
  <2>1. [a \in WtAgents |-> NoTree] \in [WtAgents -> Identities]
    BY DEF Identities
  <2> QED BY <1>2, <2>1, Backfills DEF WtInit
<1>4. WtTypeOK
  BY <1>1, <1>2, <1>3 DEF WtTypeOK
<1>5. \A h \in WtReqs : ~installing(h) /\ ~reading(h)
  BY <1>1 DEF installing, reading, Idle
<1>6. Range(disk) = {} /\ DOMAIN disk = {}
  BY <1>1 DEF Range
<1>7. OwnBranches
  BY <1>1, <1>5, <1>6 DEF OwnBranches
<1>8. OneDirectory /\ RowFollowed
  BY <1>5 DEF OneDirectory, RowFollowed
<1>9. NoResidue
  BY <1>1 DEF NoResidue
<1> QED BY <1>4, <1>7, <1>8, <1>9 DEF WtIInv

\* The worktrees under a path go, and the others stay on their branches.
LEMMA Removed ==
  ASSUME NEW p
  PROVE  /\ DOMAIN removed(p) = {q \in DOMAIN disk : ~IsPrefix(p, q)}
         /\ \A q \in DOMAIN removed(p) : q \in DOMAIN disk /\ removed(p)[q] = disk[q]
         /\ Range(removed(p)) \subseteq Range(disk)
BY DEF removed, Restrict, Range

\* A request that ends, or goes on, without touching the repository.
LEMMA RequestOver ==
  ASSUME WtIInv, NEW h \in WtReqs, att' = [att EXCEPT ![h] = Idle], ~installing(h),
         UNCHANGED <<policy, ident, disk, refs, reported, stranded>>
  PROVE  WtIInv'
<1>1. att' \in [WtReqs -> {Idle} \cup WtRead \cup WtInstall]
  BY AttSet DEF WtIInv
<1>2. WtTypeOK'
  BY <1>1 DEF WtIInv, WtTypeOK, WtRead, WtInstall
<1>3. \A g \in WtReqs : g # h => att'[g] = att[g]
  BY DEF WtIInv, WtTypeOK
<1>4. att'[h] = Idle /\ ~installing(h)' /\ ~reading(h)'
  BY DEF WtIInv, WtTypeOK, installing, reading, Idle
<1>5. \A g \in WtReqs : /\ installing(g)' => installing(g) /\ att'[g] = att[g]
                        /\ reading(g)' => reading(g) /\ att'[g] = att[g]
                        /\ installing(g) => installing(g)' /\ att'[g] = att[g]
  BY <1>3, <1>4 DEF installing, reading
<1>6. OwnBranches'
  BY <1>5 DEF WtIInv, OwnBranches
<1>7. OneDirectory'
  BY <1>5 DEF WtIInv, OneDirectory
<1>8. RowFollowed'
  BY <1>5 DEF WtIInv, RowFollowed
<1>9. NoResidue'
  BY <1>5 DEF WtIInv, NoResidue, installing
<1> QED BY <1>2, <1>6, <1>7, <1>8, <1>9 DEF WtIInv

\* A request begins: it reads the row of the agent.
LEMMA BeginsStep ==
  ASSUME WtIInv, NEW h \in WtReqs, NEW a \in WtAgents, NEW m \in {"attach", "resume"}, WtBegins(h, a, m)
  PROVE  WtIInv'
<1> DEFINE r == [st |-> "read", agent |-> a, mode |-> m, seen |-> ident[a], pol |-> policy]
<1>1. r \in WtRead
  BY DEF WtRead, WtIInv, WtTypeOK
<1>2. att' = [att EXCEPT ![h] = r] /\ UNCHANGED <<policy, ident, disk, refs, reported, stranded>> /\ att[h] = Idle
  BY DEF WtBegins
<1>2a. r.st = "read" /\ r.agent = a /\ r.seen = ident[a]
  OBVIOUS
<1> HIDE DEF r
<1>3. att' \in [WtReqs -> {Idle} \cup WtRead \cup WtInstall]
  BY <1>1, <1>2, AttSet DEF WtIInv
<1>4. WtTypeOK'
  BY <1>2, <1>3 DEF WtIInv, WtTypeOK, WtRead, WtInstall
<1>5. att'[h] = r /\ \A g \in WtReqs : g # h => att'[g] = att[g]
  BY <1>2 DEF WtIInv, WtTypeOK
<1>6. ~installing(h) /\ ~installing(h)'
  BY <1>2, <1>2a, <1>5 DEF installing, Idle
<1>7. \A g \in WtReqs : (installing(g)' <=> installing(g)) /\ (installing(g) => att'[g] = att[g])
  BY <1>5, <1>6 DEF installing
<1>8. OwnBranches'
  BY <1>2, <1>7 DEF WtIInv, OwnBranches
<1>9. OneDirectory'
  BY <1>2, <1>7 DEF WtIInv, OneDirectory
<1>10. RowFollowed'
  BY <1>2, <1>2a, <1>5, <1>6 DEF WtIInv, RowFollowed, installing, reading
<1>11. NoResidue'
  BY <1>2, <1>7 DEF WtIInv, NoResidue, installing
<1> QED BY <1>4, <1>8, <1>9, <1>10, <1>11 DEF WtIInv

\* A refused worktree leaves a branch that its error names.
LEMMA RefusedStep ==
  ASSUME WtIInv, NEW h \in WtReqs, ~installing(h), NEW b, b # <<>>, b \notin refs,
         att' = [att EXCEPT ![h] = Idle], refs' = refs \cup {b}, reported' = reported \cup {b},
         UNCHANGED <<policy, ident, disk, stranded>>
  PROVE  WtIInv'
<1>1. att' \in [WtReqs -> {Idle} \cup WtRead \cup WtInstall]
  BY AttSet DEF WtIInv
<1>2. WtTypeOK'
  BY <1>1 DEF WtIInv, WtTypeOK, WtRead, WtInstall
<1>3. att'[h] = Idle /\ \A g \in WtReqs : g # h => att'[g] = att[g]
  BY DEF WtIInv, WtTypeOK
<1>4. ~installing(h)' /\ ~reading(h)'
  BY <1>3 DEF installing, reading, Idle
<1>5. \A g \in WtReqs : /\ installing(g)' => installing(g) /\ att'[g] = att[g]
                        /\ reading(g)' => reading(g) /\ att'[g] = att[g]
                        /\ installing(g) => installing(g)' /\ att'[g] = att[g]
  BY <1>3, <1>4 DEF installing, reading
<1>6. OwnBranches'
  BY <1>5 DEF WtIInv, OwnBranches
<1>7. OneDirectory' /\ RowFollowed'
  BY <1>5 DEF WtIInv, OneDirectory, RowFollowed
<1>8. NoResidue'
  BY <1>5 DEF WtIInv, NoResidue, installing
<1> QED BY <1>2, <1>6, <1>7, <1>8 DEF WtIInv

\* A worktree is added on a branch that the repository did not have.
LEMMA CreatesStep ==
  ASSUME WtIInv, NEW h \in WtReqs, reading(h), NEW b \in WtPaths, NEW p \in WtPaths, NEW first \in BOOLEAN,
         b # <<>>, creates(h, b, p, first), UNCHANGED <<policy, ident, stranded>>,
         ~first => b \in stranded \/ b = ident[att[h].agent].branch
  PROVE  WtIInv'
<1> DEFINE r == [st |-> "install", agent |-> att[h].agent, branch |-> b, path |-> p, first |-> first]
<1>0. ~installing(h)
  BY DEF reading, installing
<1>1. CASE wtFails(h) /\ UNCHANGED <<disk, refs, reported>>
  BY <1>0, <1>1, RequestOver DEF wtFails
<1>1a. CASE /\ b \notin refs /\ wtFails(h)
            /\ refs' = refs \cup {b} /\ reported' = reported \cup {b} /\ UNCHANGED disk
  BY <1>0, <1>1a, RefusedStep DEF wtFails
<1>2. ASSUME b \notin refs, ~exists(p), disk' = added(b, p), refs' = refs \cup {b},
             att' = [att EXCEPT ![h] = r], UNCHANGED reported
      PROVE  WtIInv'
  <2>1. r \in WtInstall
    BY AttForms DEF WtInstall, WtRead, WtIInv
  <2>1a. r.st = "install" /\ r.agent = att[h].agent /\ r.branch = b /\ r.path = p /\ r.first = first
    OBVIOUS
  <2>1b. att' = [att EXCEPT ![h] = r]
    BY <1>2
  <2> HIDE DEF r
  <2>3. att' \in [WtReqs -> {Idle} \cup WtRead \cup WtInstall]
    BY <2>1, <2>1b, AttSet DEF WtIInv
  <2>4. WtTypeOK'
    BY <1>2, <2>3 DEF WtIInv, WtTypeOK, WtRead, WtInstall
  <2>5. att'[h] = r /\ \A g \in WtReqs : g # h => att'[g] = att[g]
    BY <2>1b DEF WtIInv, WtTypeOK
  <2>6. /\ installing(h)' /\ ~reading(h)' /\ att'[h].branch = b /\ att'[h].path = p
        /\ att'[h].first = first /\ att'[h].agent = att[h].agent
    BY <2>1a, <2>5 DEF installing, reading
  <2>7. \A g \in WtReqs : g # h => /\ att'[g] = att[g]
                                   /\ (installing(g)' <=> installing(g)) /\ (reading(g)' <=> reading(g))
    BY <2>5 DEF installing, reading
  <2>8. /\ DOMAIN disk' = DOMAIN disk \cup {p} /\ disk'[p] = b
        /\ \A q \in DOMAIN disk : disk'[q] = disk[q]
        /\ \A q \in DOMAIN disk' : disk'[q] = b \/ (q \in DOMAIN disk /\ disk'[q] = disk[q])
    BY <1>2 DEF added, exists
  <2>9. \A q \in DOMAIN disk : disk[q] \in refs
    BY DEF WtIInv, OwnBranches, Range
  <2>10. Range(disk') \subseteq refs'
    BY <1>2, <2>8, <2>9 DEF Range
  <2>11. OwnBranches'
    BY <1>2, <1>0, <2>6, <2>7, <2>10 DEF WtIInv, OwnBranches
  <2>12. OneDirectory'
    <3>1. ASSUME NEW g \in WtReqs, installing(g)', att'[g].branch \notin stranded', NEW q \in DOMAIN disk',
                 disk'[q] = att'[g].branch
          PROVE  q = att'[g].path
      <4>1. CASE g = h
        <5>1. disk'[q] = b
          BY <3>1, <4>1, <2>6
        <5>2. q \notin DOMAIN disk
          BY <1>2, <5>1, <2>8, <2>9
        <5> QED BY <4>1, <5>2, <2>6, <2>8
      <4>2. CASE g # h
        <5>1. installing(g) /\ att'[g] = att[g] /\ att[g].branch \in refs /\ att[g].branch # b
          BY <1>2, <3>1, <4>2, <2>7 DEF WtIInv, OwnBranches
        <5>2. q \in DOMAIN disk /\ disk[q] = att[g].branch
          BY <3>1, <5>1, <2>8
        <5> QED BY <3>1, <5>1, <5>2 DEF WtIInv, OneDirectory
      <4> QED BY <4>1, <4>2
    <3> QED BY <3>1 DEF OneDirectory
  <2>13. RowFollowed'
    BY <2>6, <2>7 DEF WtIInv, RowFollowed
  <2>14. NoResidue'
    BY <1>0, <1>2, <2>6, <2>7 DEF WtIInv, NoResidue, installing
  <2> QED BY <2>4, <2>11, <2>12, <2>13, <2>14 DEF WtIInv
<1> QED BY <1>1, <1>1a, <1>2 DEF creates

\* The worktree the row names is taken, or created, or refused.
LEMMA ResolvesStep ==
  ASSUME WtIInv, NEW h \in WtReqs, Resolves(h)
  PROVE  WtIInv'
<1>0. reading(h) /\ ~installing(h)
  BY DEF Resolves, reading, installing
<1>1. att[h] \in WtRead
  BY <1>0, AttForms DEF WtIInv
<1>2. att[h].seen \in Identities /\ att[h].agent \in WtAgents
      /\ att[h].pol \in [on : BOOLEAN, prefix : BranchPrefixes, root : Roots]
  BY <1>1 DEF WtRead
<1>3. UNCHANGED <<policy, ident, stranded>>
  BY DEF Resolves
<1>4. ASSUME NEW cwd, starts(h, cwd) PROVE WtIInv'
  BY <1>0, <1>3, <1>4, RequestOver DEF starts, wtStarts
<1>5. ASSUME att[h].seen # NoTree, creates(h, att[h].seen.branch, att[h].seen.path, FALSE) PROVE WtIInv'
  <2>1. /\ att[h].seen.branch \in WtPaths /\ att[h].seen.branch # <<>> /\ att[h].seen.path \in WtPaths
    BY <1>2, <1>5 DEF Identities
  <2>2. att[h].seen.branch \in stranded \/ att[h].seen.branch = ident[att[h].agent].branch
    BY <1>0, <1>5 DEF WtIInv, RowFollowed
  <2> QED BY <1>0, <1>3, <1>5, <2>1, <2>2, CreatesStep
<1>6. ASSUME creates(h, branchFor(att[h].pol, att[h].agent), pathFor(att[h].pol, att[h].agent), TRUE)
      PROVE  WtIInv'
  BY <1>0, <1>2, <1>3, <1>6, WtNamed, CreatesStep
<1> QED
  BY <1>4, <1>5, <1>6 DEF Resolves

\* The install ends: a first attach writes the row, or rollback removes what the
\* request made and nothing else.
LEMMA InstalledStep ==
  ASSUME WtIInv, NEW h \in WtReqs, Installed(h)
  PROVE  WtIInv'
<1>0. installing(h)
  BY DEF Installed, installing
<1>1. att[h] \in WtInstall
  BY <1>0, AttForms DEF WtIInv
<1> DEFINE b == att[h].branch
           p == att[h].path
           a == att[h].agent
<1>2. b \in WtPaths /\ p \in WtPaths /\ a \in WtAgents /\ att[h].first \in BOOLEAN /\ b \in refs /\ b # <<>>
  BY <1>0, <1>1 DEF WtInstall, WtIInv, OwnBranches
<1>3. UNCHANGED policy
  BY DEF Installed
<1>4. att' = [att EXCEPT ![h] = Idle]
  BY DEF Installed, starts, wtStarts, wtFails
<1>5. att' \in [WtReqs -> {Idle} \cup WtRead \cup WtInstall]
  BY <1>4, AttSet DEF WtIInv
<1>6. att'[h] = Idle /\ \A g \in WtReqs : g # h => att'[g] = att[g]
  BY <1>4 DEF WtIInv, WtTypeOK
<1>7. ~installing(h)' /\ ~reading(h)' /\ ~reading(h)
  BY <1>0, <1>6 DEF installing, reading, Idle
<1>8. \A g \in WtReqs : /\ installing(g)' => g # h /\ installing(g) /\ att'[g] = att[g]
                        /\ reading(g)' => reading(g) /\ att'[g] = att[g]
                        /\ installing(g) => g = h \/ (installing(g)' /\ att'[g] = att[g])
  BY <1>6, <1>7 DEF installing, reading
<1>9. \A g \in WtReqs : installing(g)' => att'[g].branch # b /\ att'[g].branch \in refs
  BY <1>0, <1>8 DEF WtIInv, OwnBranches
<1>10. ASSUME ident' = (IF att[h].first THEN [ident EXCEPT ![a] = [branch |-> b, path |-> p]] ELSE ident),
              stranded' = (IF att[h].first THEN stranded \cup ({ident[a].branch} \ {NoTree.branch, b})
                           ELSE stranded),
              UNCHANGED <<disk, refs, reported>>
       PROVE  WtIInv'
  <2>1. OwnBranches'
    BY <1>8, <1>10 DEF WtIInv, OwnBranches
  <2>2. stranded \subseteq stranded'
    BY <1>10
  <2>3. OneDirectory'
    BY <1>8, <1>10, <2>2 DEF WtIInv, OneDirectory
  <2>4. ASSUME att[h].first PROVE WtTypeOK' /\ RowFollowed' /\ NoResidue'
    <3> DEFINE new == [branch |-> b, path |-> p]
    <3>1. new \in Identities /\ new.branch = b
      BY <1>2 DEF Identities
    <3>2. ident' = [ident EXCEPT ![a] = new]
      BY <1>10, <2>4
    <3> HIDE DEF new
    <3>3. ident' \in [WtAgents -> Identities] /\ ident'[a] = new /\ \A x \in WtAgents : x # a => ident'[x] = ident[x]
      BY <1>2, <3>1, <3>2 DEF WtIInv, WtTypeOK
    <3>4. WtTypeOK'
      BY <1>3, <1>5, <3>3 DEF WtIInv, WtTypeOK, WtRead, WtInstall
    <3>5. NoTree.branch = <<>>
      BY DEF NoTree
    <3>6. \A x \in WtAgents : ident[x].branch \in stranded' \/ ident[x].branch = ident'[x].branch
                              \/ ident[x].branch = <<>>
      BY <1>2, <1>10, <2>4, <3>1, <3>3, <3>5
    <3>7. ASSUME NEW c \in refs
          PROVE  \/ \E x \in WtAgents : ident'[x].branch = c
                 \/ \E g \in WtReqs : installing(g)' /\ att'[g].branch = c
                 \/ c \in reported \cup stranded'
      <4>1. c # <<>>
        BY DEF WtIInv, OwnBranches
      <4>2. CASE \E x \in WtAgents : ident[x].branch = c
        BY <3>6, <4>1, <4>2
      <4>3. CASE \E g \in WtReqs : installing(g) /\ att[g].branch = c
        BY <1>2, <1>8, <3>1, <3>3, <4>3
      <4>4. CASE c \in reported \cup stranded
        BY <2>2, <4>4
      <4>5. \/ \E x \in WtAgents : ident[x].branch = c
            \/ \E g \in WtReqs : installing(g) /\ att[g].branch = c
            \/ c \in reported \cup stranded
        BY DEF WtIInv, NoResidue, installing
      <4> QED BY <4>2, <4>3, <4>4, <4>5
    <3>8. NoResidue'
      BY <1>10, <3>7 DEF NoResidue, installing
    <3>9. \A g \in WtReqs : reading(g) => att[g].agent \in WtAgents /\ att[g].seen \in Identities
      BY AttForms DEF WtIInv, WtRead
    <3>10. \A g \in WtReqs : installing(g) => att[g].agent \in WtAgents /\ att[g].branch # <<>>
      BY AttForms DEF WtIInv, WtInstall, OwnBranches
    <3>11. \A i \in Identities : i # NoTree => i.branch # <<>>
      BY DEF Identities
    <3>12. RowFollowed'
      <4>1. ASSUME NEW g \in WtReqs, reading(g)', att'[g].seen # NoTree, att'[g].seen.branch \notin stranded'
            PROVE  att'[g].seen.branch = ident'[att'[g].agent].branch
        <5>1. reading(g) /\ att'[g] = att[g]
          BY <1>8, <4>1
        <5>2. att[g].seen.branch = ident[att[g].agent].branch
          BY <2>2, <4>1, <5>1 DEF WtIInv, RowFollowed
        <5>3. att[g].seen.branch # <<>>
          BY <3>9, <3>11, <4>1, <5>1
        <5> QED BY <3>6, <3>9, <4>1, <5>1, <5>2, <5>3
      <4>2. ASSUME NEW g \in WtReqs, installing(g)', ~att'[g].first, att'[g].branch \notin stranded'
            PROVE  att'[g].branch = ident'[att'[g].agent].branch
        <5>1. installing(g) /\ att'[g] = att[g]
          BY <1>8, <4>2
        <5>2. att[g].branch = ident[att[g].agent].branch
          BY <2>2, <4>2, <5>1 DEF WtIInv, RowFollowed
        <5> QED BY <3>6, <3>10, <4>2, <5>1, <5>2
      <4> QED BY <4>1, <4>2 DEF RowFollowed
    <3> QED BY <3>4, <3>8, <3>12
  <2>5. ASSUME ~att[h].first PROVE WtTypeOK' /\ RowFollowed' /\ NoResidue'
    <3>1. UNCHANGED <<ident, stranded>>
      BY <1>10, <2>5
    <3>2. WtTypeOK'
      BY <1>3, <1>5, <3>1 DEF WtIInv, WtTypeOK, WtRead, WtInstall
    <3>3. RowFollowed'
      BY <1>8, <3>1 DEF WtIInv, RowFollowed
    <3>4. b \in stranded \/ b = ident[a].branch
      BY <1>0, <2>5 DEF WtIInv, RowFollowed
    <3>5. ASSUME NEW c \in refs
          PROVE  \/ \E x \in WtAgents : ident[x].branch = c
                 \/ \E g \in WtReqs : installing(g)' /\ att'[g].branch = c
                 \/ c \in reported \cup stranded
      BY <1>2, <1>8, <3>4 DEF WtIInv, NoResidue, installing
    <3>6. NoResidue'
      BY <1>10, <3>1, <3>5 DEF NoResidue, installing
    <3> QED BY <3>2, <3>3, <3>6
  <2> QED BY <1>2, <2>1, <2>3, <2>4, <2>5 DEF WtIInv
<1>11. ASSUME NEW said \in BOOLEAN, rollback(b, p, said), UNCHANGED ident PROVE WtIInv'
  <2>1. /\ disk' \in {disk, removed(p)}
        /\ refs' = refs \/ (refs' = refs \ {b} /\ b \notin Range(disk'))
        /\ disk' # removed(p) \/ (b \notin Range(disk') /\ b \in refs') => b \in reported' \cup stranded'
        /\ reported \subseteq reported' /\ stranded \subseteq stranded'
    BY <1>11 DEF rollback
  <2>2. /\ DOMAIN disk' \subseteq DOMAIN disk /\ \A q \in DOMAIN disk' : disk'[q] = disk[q]
        /\ Range(disk') \subseteq Range(disk)
        /\ disk' = removed(p) => p \notin DOMAIN disk'
    <3>1. CASE disk' = disk
      <4>1. disk' = removed(p) => p \notin DOMAIN disk'
        BY <1>2, Removed, OwnPrefix
      <4> QED BY <3>1, <4>1
    <3>2. CASE disk' = removed(p)
      BY <1>2, <3>2, Removed, OwnPrefix
    <3> QED BY <2>1, <3>1, <3>2
  <2>3. WtTypeOK'
    BY <1>3, <1>5, <1>11 DEF WtIInv, WtTypeOK, WtRead, WtInstall
  <2>4. OwnBranches'
    BY <1>8, <1>9, <2>1, <2>2 DEF WtIInv, OwnBranches
  <2>5. OneDirectory'
    BY <1>8, <2>1, <2>2 DEF WtIInv, OneDirectory
  <2>6. RowFollowed'
    BY <1>8, <1>11, <2>1 DEF WtIInv, RowFollowed
  <2>7. b \in refs' => b \in reported' \cup stranded'
    <3>1. ASSUME b \notin stranded, disk' = removed(p), b \in Range(disk') PROVE FALSE
      <4>1. PICK q \in DOMAIN disk' : disk'[q] = b
        BY <3>1 DEF Range
      <4>2. q \in DOMAIN disk /\ disk[q] = b
        BY <4>1, <2>2
      <4>3. q = p
        BY <1>0, <3>1, <4>2 DEF WtIInv, OneDirectory
      <4> QED BY <3>1, <4>1, <4>3, <2>2
    <3> QED BY <2>1, <3>1
  <2>8. NoResidue'
    <3>1. ASSUME NEW c \in refs'
          PROVE  \/ \E x \in WtAgents : ident[x].branch = c
                 \/ \E g \in WtReqs : installing(g)' /\ att'[g].branch = c
                 \/ c \in reported' \cup stranded'
      <4>1. c \in refs
        BY <2>1
      <4>2. \/ \E x \in WtAgents : ident[x].branch = c
            \/ \E g \in WtReqs : installing(g) /\ att[g].branch = c
            \/ c \in reported' \cup stranded'
        BY <2>1, <4>1 DEF WtIInv, NoResidue, installing
      <4>3. c = b => c \in reported' \cup stranded'
        BY <2>7
      <4> HIDE DEF b
      <4>4. \A g \in WtReqs : installing(g) => (g = h /\ att[g].branch = b) \/ (installing(g)' /\ att'[g].branch = att[g].branch)
        BY <1>8 DEF b
      <4> QED BY <4>2, <4>3, <4>4
    <3> QED BY <1>11, <3>1 DEF NoResidue, installing
  <2> QED BY <2>3, <2>4, <2>5, <2>6, <2>8 DEF WtIInv
<1> QED BY <1>10, <1>11 DEF Installed, starts

\* A worktree is moved, and what is installed below it is given up.
LEMMA MovesStep ==
  ASSUME WtIInv, NEW a \in WtAgents, NEW to \in Places, NEW own \in BOOLEAN, MovesTree(a, to, own)
  PROVE  WtIInv'
<1> DEFINE from == ident[a].path
           at(q) == carried(q, from, to)
<1>1. /\ disk' = [q \in {at(p) : p \in DOMAIN disk} |-> disk[CHOOSE p \in DOMAIN disk : at(p) = q]]
      /\ ident' = [ident EXCEPT ![a].path = to]
      /\ stranded' = stranded \cup {att[h].branch : h \in {i \in WtReqs :
                     att[i].st = "install" /\ IsPrefix(from, att[i].path)}}
      /\ UNCHANGED <<policy, refs, att, reported>> /\ ident[a] # NoTree
  BY DEF MovesTree, hand
<1>2. to \in WtPaths
  BY WtNames, WordSeqs
<1>3. ident[a] \in [branch : WtPaths, path : WtPaths] /\ ident[a].branch # <<>>
  BY <1>1 DEF WtIInv, WtTypeOK, Identities
<1>4. [ident[a] EXCEPT !.path = to] \in Identities /\ [ident[a] EXCEPT !.path = to].branch = ident[a].branch
  BY <1>2, <1>3 DEF Identities
<1>5. ident' \in [WtAgents -> Identities] /\ \A x \in WtAgents : ident'[x].branch = ident[x].branch
  BY <1>1, <1>4 DEF WtIInv, WtTypeOK
<1>6. WtTypeOK'
  BY <1>1, <1>5 DEF WtIInv, WtTypeOK
<1>7. ASSUME NEW q \in DOMAIN disk' PROVE \E p \in DOMAIN disk : at(p) = q /\ disk'[q] = disk[p]
  <2>1. \E p \in DOMAIN disk : at(p) = q
    BY <1>1 DEF at
  <2> DEFINE c == CHOOSE p \in DOMAIN disk : at(p) = q
  <2>2. c \in DOMAIN disk /\ at(c) = q
    <3> HIDE DEF at
    <3> QED BY <2>1
  <2>3. disk'[q] = disk[c]
    <3> HIDE DEF at, from
    <3> QED BY <1>1
  <2> QED BY <2>2, <2>3
<1> HIDE DEF at
<1>8. Range(disk') \subseteq Range(disk)
  BY <1>7 DEF Range
<1>9. UNCHANGED <<refs, att>> /\ \A h \in WtReqs : (installing(h)' <=> installing(h)) /\ (reading(h)' <=> reading(h))
  BY <1>1 DEF installing, reading
<1>10. OwnBranches'
  BY <1>8, <1>9 DEF WtIInv, OwnBranches
<1>11. stranded \subseteq stranded' /\ \A h \in WtReqs : installing(h) /\ IsPrefix(from, att[h].path)
                                           => att[h].branch \in stranded'
  BY <1>1 DEF installing
<1>12. ASSUME NEW h \in WtReqs, installing(h), att[h].branch \notin stranded', NEW q \in DOMAIN disk',
              disk'[q] = att[h].branch
       PROVE  q = att[h].path
  <2>1. PICK p \in DOMAIN disk : at(p) = q /\ disk'[q] = disk[p]
    BY <1>7
  <2>2. p = att[h].path
    BY <1>11, <1>12, <2>1 DEF WtIInv, OneDirectory
  <2>3. ~IsPrefix(from, p)
    BY <1>11, <1>12, <2>2
  <2>4. at(p) = p
    BY <2>3 DEF at, carried
  <2> QED BY <2>1, <2>2, <2>4
<1>13. OneDirectory'
  BY <1>9, <1>12 DEF OneDirectory
<1>14. \A h \in WtReqs : installing(h) \/ reading(h) => att[h].agent \in WtAgents
  BY AttForms DEF WtIInv, WtRead, WtInstall
<1>15. RowFollowed'
  BY <1>5, <1>9, <1>11, <1>14 DEF WtIInv, RowFollowed
<1>16. NoResidue'
  <2>1. reported' = reported /\ refs' = refs /\ att' = att /\ stranded \subseteq stranded'
    BY <1>1
  <2>2. \A x \in WtAgents : ident'[x].branch = ident[x].branch
    BY <1>5
  <2> QED BY <2>1, <2>2 DEF WtIInv, NoResidue
<1> QED BY <1>6, <1>10, <1>13, <1>15, <1>16 DEF WtIInv

\* A worktree nobody works in is cleaned up, with or without its branch.
LEMMA CleanedStep ==
  ASSUME WtIInv, NEW p \in DOMAIN disk, NEW andBranch \in BOOLEAN, Cleaned(p, andBranch)
  PROVE  WtIInv'
<1>1. disk' = removed(p) /\ UNCHANGED <<policy, ident, att, reported, stranded>>
  BY DEF Cleaned, hand
<1>2. refs' = refs \/ (refs' = refs \ {disk[p]} /\ disk[p] \notin Range(disk'))
  BY Zenon DEF Cleaned
<1>3. /\ DOMAIN disk' \subseteq DOMAIN disk /\ \A q \in DOMAIN disk' : disk'[q] = disk[q]
      /\ Range(disk') \subseteq Range(disk)
  BY <1>1, Removed
<1>4. refs' \subseteq refs /\ \A c \in refs : c \in refs' \/ c \notin Range(disk')
  BY <1>2
<1>5. \A h \in WtReqs : (installing(h)' <=> installing(h)) /\ (reading(h)' <=> reading(h))
  BY <1>1 DEF installing, reading
<1>6. \A h \in WtReqs : installing(h) => att[h].branch \in Range(disk')
  BY <1>1 DEF Cleaned, installing
<1>7. WtTypeOK'
  BY <1>1 DEF WtIInv, WtTypeOK
<1>8. Range(disk') \subseteq refs'
  BY <1>3, <1>4 DEF WtIInv, OwnBranches
<1>9. OwnBranches'
  BY <1>1, <1>4, <1>5, <1>6, <1>8 DEF WtIInv, OwnBranches
<1>10. OneDirectory'
  BY <1>1, <1>3, <1>5 DEF WtIInv, OneDirectory
<1>11. RowFollowed'
  BY <1>1, <1>5 DEF WtIInv, RowFollowed
<1>12. NoResidue'
  BY <1>1, <1>4, <1>5 DEF WtIInv, NoResidue, installing
<1> QED BY <1>7, <1>9, <1>10, <1>11, <1>12 DEF WtIInv

\* A restart: the requests are gone, what they were installing is given up, and a row
\* without an identity may be given one.
LEMMA WtRestartStep == ASSUME WtIInv, WtRestart PROVE WtIInv'
<1>1. /\ stranded' = stranded \cup {att[h].branch : h \in {i \in WtReqs : att[i].st = "install"}}
      /\ att' = [h \in WtReqs |-> Idle] /\ UNCHANGED <<policy, disk, refs, reported>>
      /\ ident' = backfilled(policy, hired, ident)
  BY DEF WtRestart
<1>2. \A h \in WtReqs : ~installing(h)' /\ ~reading(h)'
  BY <1>1 DEF installing, reading, Idle
<1>3. /\ ident' \in [WtAgents -> Identities]
      /\ \A a \in WtAgents : ident[a] = NoTree \/ ident'[a] = ident[a]
  BY <1>1, Backfills DEF WtIInv, WtTypeOK
<1>4. WtTypeOK'
  BY <1>1, <1>3 DEF WtIInv, WtTypeOK
<1>5. OwnBranches' /\ OneDirectory' /\ RowFollowed'
  BY <1>1, <1>2 DEF WtIInv, OwnBranches, OneDirectory, RowFollowed
<1>6. NoResidue'
  <2>1. ASSUME NEW c \in refs
        PROVE  (\E a \in WtAgents : ident'[a].branch = c) \/ c \in reported \cup stranded'
    <3>1. c # <<>> /\ NoTree.branch = <<>>
      BY DEF WtIInv, OwnBranches, NoTree
    <3>2. \/ \E a \in WtAgents : ident[a].branch = c
          \/ c \in reported \cup stranded'
      BY <1>1 DEF WtIInv, NoResidue
    <3> QED BY <1>3, <3>1, <3>2
  <2> QED BY <1>1, <2>1 DEF NoResidue
<1> QED BY <1>4, <1>5, <1>6 DEF WtIInv

\* A step of the policy or the sessions alone.
LEMMA WtFrame ==
  ASSUME WtIInv, UNCHANGED <<ident, disk, refs, att, reported, stranded>>,
         policy' \in [on : BOOLEAN, prefix : BranchPrefixes, root : Roots]
  PROVE  WtIInv'
<1>1. \A h \in WtReqs : (installing(h)' <=> installing(h)) /\ (reading(h)' <=> reading(h))
  BY DEF installing, reading
<1>2. WtTypeOK' /\ OwnBranches'
  BY <1>1 DEF WtIInv, WtTypeOK, OwnBranches
<1>3. OneDirectory' /\ RowFollowed' /\ NoResidue'
  BY <1>1 DEF WtIInv, OneDirectory, RowFollowed, NoResidue
<1> QED BY <1>2, <1>3 DEF WtIInv

\* Every step keeps the invariant.
LEMMA WtStep == WtIInv /\ [WtNext]_wtVars => WtIInv'
<1> SUFFICES ASSUME WtIInv, [WtNext]_wtVars PROVE WtIInv'
  OBVIOUS
<1>0. policy \in [on : BOOLEAN, prefix : BranchPrefixes, root : Roots]
  BY DEF WtIInv, WtTypeOK
<1>1. ASSUME NEW r \in running, WtEnds(r) PROVE WtIInv'
  BY <1>0, <1>1, WtFrame DEF WtEnds
<1>2. ASSUME NEW x \in BranchPrefixes, NEW r \in Roots, SetDefault(x, r) PROVE WtIInv'
  <2>1. policy' \in [on : BOOLEAN, prefix : BranchPrefixes, root : Roots]
    BY <1>2 DEF SetDefault
  <2> QED BY <1>2, <2>1, WtFrame DEF SetDefault, hand
<1>3. ASSUME PolicyOff PROVE WtIInv'
  <2>1. policy' \in [on : BOOLEAN, prefix : BranchPrefixes, root : Roots]
    BY <1>0, <1>3 DEF PolicyOff
  <2> QED BY <1>3, <2>1, WtFrame DEF PolicyOff, hand
<1>4. CASE UNCHANGED wtVars
  BY <1>0, <1>4, WtFrame DEF wtVars
<1> QED
  BY <1>1, <1>2, <1>3, <1>4, BeginsStep, ResolvesStep, InstalledStep, MovesStep, CleanedStep, WtRestartStep
  DEF WtNext

\* Every branch of the repository is named by the row of an agent, or is being
\* installed, or was named by the error of a git command that failed, however
\* attaches, resumes, failed installs, roll-backs of which any command may fail,
\* moves, clean-ups and boots interleave (createWorktree and rollbackWorktree in
\* spawn-worktree.ts, agent-worktree-identity-migration.ts).  The exceptions are
\* those of NoResidue.
THEOREM WorktreesLeaveNoResidue == WtSpec => []NoResidue
<1>1. WtSpec => []WtIInv
  BY WtInitInv, WtStep, PTL DEF WtSpec
<1>2. WtIInv => NoResidue
  BY DEF WtIInv
<1> QED BY <1>1, <1>2, PTL

-----------------------------------------------------------------------------
(* Roles under git (RoleRepo).                                             *)

\* A commit, a row of a role, a checkout on a desk and what a client has read.
Trees == [edits : SUBSET Nat, triggers : BOOLEAN]
RoleRows == [id : Nat \ {0}, pin : [own : BOOLEAN, sha : Nat], persistent : BOOLEAN, agent : BOOLEAN]
OpenDesks == [id : Nat \ {0}, branch : Names, base : Nat]
Drafts == [id : Nat \ {0}, name : Names, edits : SUBSET Nat]

\* The types, without the bounds of RoleTypeOK.
RoleTyped ==
  /\ commits \in Seq(Trees)
  /\ upstream \in [Shipped -> Seq(Nat)]
  /\ branches \in [Names -> Nat]
  /\ rows \in [Names -> {None} \cup RoleRows]
  /\ rowCount \in Nat /\ edits \in Nat
  /\ desk \in [Desks -> {None} \cup OpenDesks]
  /\ draft \in {None} \cup Drafts
  /\ kept \in [Names -> SUBSET Nat]

\* Ids are given out once, a pin names a commit that was made, and the scheduler
\* has nothing of a role without an agent.
RowsNumbered ==
  /\ \A n \in Names : role(n) => rows[n].id <= rowCount /\ rows[n].pin.sha <= Len(commits)
  /\ \A m, n \in Names : role(m) /\ role(n) /\ rows[m].id = rows[n].id => m = n
  /\ \A i \in dispatch : i \in 1 .. rowCount
  /\ \A n \in Names : role(n) /\ ~rows[n].agent => rows[n].id \notin dispatch

\* The checkout a desk has open is one of a commit that was made, and where its
\* role still has the branch at that commit, the role is pinned to it: that is why
\* a desk that is not stale commits on the content of the pin.
DesksFollow ==
  \A d \in Desks : open(d) =>
    /\ desk[d].id <= rowCount /\ desk[d].base \in 1 .. Len(commits)
    /\ \A n \in Names : n = desk[d].branch /\ rows[n].id = desk[d].id =>
         pinned(n) /\ (branches[n] = desk[d].base => rows[n].pin.sha = desk[d].base)

\* The inductive invariant: a desk commits on the base it checked out, so what it
\* keeps of the acknowledged edits rests on what DesksFollow says of that base, and
\* what the scheduler has rests on no id being given out twice.
RoleIInv == RoleTyped /\ RowsNumbered /\ DesksFollow /\ PinResolves /\ AckedEditsKept

\* A row or none; rows of different ids; a row that the scheduler is to register.
RowSet == {None} \cup RoleRows
Numbered(R) == \A m, n \in Names : R[m].id # 0 /\ R[n].id # 0 /\ R[m].id = R[n].id => m = n
Declares(row, C) == row.agent /\ row.persistent /\ row.pin.sha # 0 /\ C[row.pin.sha].triggers

\* The fields of a row.
LEMMA RowForms ==
  /\ None.id = 0
  /\ \A r \in RowSet : r.id # 0 => r \in RoleRows
  /\ \A r \in RoleRows : /\ r.id \in Nat /\ r.id # 0 /\ r.pin.sha \in Nat /\ r.pin.own \in BOOLEAN
                         /\ r.persistent \in BOOLEAN /\ r.agent \in BOOLEAN
  /\ RoleRows \subseteq RowSet /\ None \in RowSet
BY DEF RowSet, RoleRows, None

\* The fields of a checkout and of a draft.
LEMMA DeskForms ==
  /\ \A k \in {None} \cup OpenDesks : k.id # 0 => k \in OpenDesks
  /\ \A k \in OpenDesks : k.id \in Nat /\ k.id # 0 /\ k.branch \in Names /\ k.base \in Nat
  /\ \A k \in {None} \cup Drafts : k.id # 0 => k \in Drafts
  /\ \A k \in Drafts : k.id \in Nat /\ k.id # 0 /\ k.name \in Names /\ k.edits \in SUBSET Nat
BY DEF OpenDesks, Drafts, None

\* What the scheduler registers is told by the row of the role alone.
LEMMA RegisteredRow ==
  ASSUME NEW R \in [Names -> RowSet], NEW C, Numbered(R)
  PROVE  /\ \A n \in Names : R[n].id # 0 => (R[n].id \in registered(R, C) <=> Declares(R[n], C))
         /\ \A i \in registered(R, C) : \E n \in Names : R[n].id = i /\ R[n].id # 0 /\ R[n].agent
BY DEF registered, Declares, Numbered

\* A boot gives agents to the persistent roles, and changes nothing else of a row.
LEMMA EstablishedRow ==
  ASSUME NEW R \in [Names -> RowSet]
  PROVE  /\ established(R) \in [Names -> RowSet]
         /\ \A n \in Names :
              /\ established(R)[n].id = R[n].id
              /\ R[n].id # 0 => /\ established(R)[n].pin = R[n].pin
                                /\ established(R)[n].persistent = R[n].persistent
                                /\ R[n].agent => established(R)[n].agent
<1>1. ASSUME NEW n \in Names, R[n].id = 0 PROVE established(R)[n] = R[n]
  BY <1>1 DEF established
<1>2. ASSUME NEW n \in Names, R[n].id # 0
      PROVE  /\ established(R)[n] \in RoleRows /\ established(R)[n].id = R[n].id
             /\ established(R)[n].pin = R[n].pin /\ established(R)[n].persistent = R[n].persistent
             /\ R[n].agent => established(R)[n].agent
  <2>1. R[n] \in RoleRows
    BY <1>2, RowForms
  <2>2. established(R)[n] = [R[n] EXCEPT !.agent = R[n].agent \/ R[n].persistent]
    BY <1>2 DEF established
  <2> DEFINE v == R[n].agent \/ R[n].persistent
  <2>3. v \in BOOLEAN /\ (R[n].agent => v)
    OBVIOUS
  <2> HIDE DEF v
  <2>4. established(R)[n] = [R[n] EXCEPT !.agent = v]
    BY <2>2 DEF v
  <2> QED BY <2>1, <2>3, <2>4 DEF RoleRows
<1>3. ASSUME NEW n \in Names PROVE established(R)[n] \in RowSet
  BY <1>1, <1>2, RowForms
<1>4. established(R) \in [Names -> RowSet]
  BY <1>3 DEF established
<1> QED BY <1>1, <1>2, <1>4

\* Cloning makes no commit and loses none.
LEMMA ClonedFrom ==
  ASSUME objects' = clone, UNCHANGED upstream
  PROVE  clone' = clone
<1>1. engine' = engine
  BY DEF engine
<1>2. clone = {} => objects = {} /\ engine = {}
  BY DEF clone
<1> QED BY <1>1, <1>2 DEF clone

\* Advancing a branch of the engine's repository keeps the commits it had.
LEMMA AdvanceKeeps ==
  ASSUME RoleTyped, NEW s \in Shipped, NEW c \in Nat, upstream' = advance(s, c)
  PROVE  upstream' \in [Shipped -> Seq(Nat)] /\ engine \subseteq engine'
<1>1. Append(upstream[s], c) \in Seq(Nat)
  BY DEF RoleTyped
<1>2. /\ upstream' \in [Shipped -> Seq(Nat)] /\ upstream'[s] = Append(upstream[s], c)
      /\ \A t \in Shipped : t # s => upstream'[t] = upstream[t]
  BY <1>1 DEF advance, RoleTyped
<1>3. Range(upstream[s]) \subseteq Range(Append(upstream[s], c))
  <2>1. upstream[s] \in Seq(Nat)
    BY DEF RoleTyped
  <2> DEFINE u == upstream[s]
  <2> HIDE DEF u
  <2>2. u \in Seq(Nat) => DOMAIN u \subseteq DOMAIN Append(u, c) /\ \A i \in DOMAIN u : Append(u, c)[i] = u[i]
    OBVIOUS
  <2> QED BY <2>1, <2>2 DEF u, Range
<1>4. \A t \in Shipped : Range(upstream[t]) \subseteq Range(upstream'[t])
  BY <1>2, <1>3
<1> QED BY <1>2, <1>4 DEF engine

\* A fresh workspace is seeded with pins on the tips of the engine's branches.
LEMMA RoleInitInv == RoleInit => RoleIInv
<1> SUFFICES ASSUME RoleInit PROVE RoleIInv
  OBVIOUS
<1> DEFINE many == Cardinality(Shipped)
<1>1. many \in Nat
  BY RoleNames, FS_CardinalityType
<1>2. PICK number \in Injection(Shipped, 1 .. many), p \in [1 .. many -> BOOLEAN] :
        /\ commits = [c \in 1 .. many |-> [edits |-> {}, triggers |-> p[c]]]
        /\ upstream = [s \in Shipped |-> <<number[s]>>]
        /\ objects = {} /\ branches = [n \in Names |-> 0]
        /\ rows = [n \in Names |-> IF n \notin Shipped THEN None
                  ELSE [id |-> number[n], pin |-> [own |-> FALSE, sha |-> number[n]],
                        persistent |-> p[number[n]], agent |-> p[number[n]]]]
        /\ rowCount = many /\ edits = 0
        /\ desk = [d \in Desks |-> None] /\ draft = None
        /\ dispatch = registered(rows, commits) /\ kept = [n \in Names |-> {}]
  BY DEF RoleInit
<1> HIDE DEF many
<1>3. /\ number \in [Shipped -> 1 .. many]
      /\ \A s, t \in Shipped : number[s] = number[t] => s = t
  BY DEF Injection, IsInjective
<1>4. \A c \in 1 .. many : [edits |-> {}, triggers |-> p[c]] \in Trees
  BY DEF Trees
<1>5. commits \in Seq(Trees) /\ Len(commits) = many
  <2> DEFINE first(c) == [edits |-> {}, triggers |-> p[c]]
  <2>1. \A c \in 1 .. many : first(c) \in Trees
    BY <1>4
  <2>2. commits = [c \in 1 .. many |-> first(c)]
    BY <1>2
  <2> HIDE DEF first
  <2> QED BY <1>1, <2>1, <2>2
<1>6. ASSUME NEW n \in Shipped
      PROVE  /\ rows[n] \in RoleRows /\ rows[n].id = number[n] /\ rows[n].pin.sha = number[n]
             /\ rows[n].agent = p[number[n]]
  <2>1. n \in Names /\ number[n] \in 1 .. many /\ p[number[n]] \in BOOLEAN
    BY <1>3, RoleNames
  <2>2. rows[n] = [id |-> number[n], pin |-> [own |-> FALSE, sha |-> number[n]],
                   persistent |-> p[number[n]], agent |-> p[number[n]]]
    BY <1>2, <2>1
  <2> QED BY <1>1, <2>1, <2>2 DEF RoleRows
<1>7. \A n \in Names : n \notin Shipped => rows[n] = None
  BY <1>2
<1>8. rows \in [Names -> RowSet]
  <2>1. \A n \in Names : rows[n] \in RowSet
    BY <1>6, <1>7, RowForms
  <2>2. rows = [n \in Names |-> rows[n]]
    BY <1>2
  <2> QED BY <2>1, <2>2
<1>9. \A n \in Names : rows[n].id # 0 => n \in Shipped
  BY <1>7, RowForms
<1>10. upstream \in [Shipped -> Seq(Nat)] /\ \A s \in Shipped : number[s] \in Range(upstream[s])
  <2>1. ASSUME NEW s \in Shipped PROVE <<number[s]>> \in Seq(Nat) /\ number[s] \in Range(<<number[s]>>)
    <3>1. number[s] \in Nat
      BY <1>1, <1>3
    <3>2. 1 \in DOMAIN <<number[s]>> /\ <<number[s]>>[1] = number[s]
      OBVIOUS
    <3> QED BY <3>1, <3>2 DEF Range
  <2> QED BY <1>2, <2>1
<1>11. RoleTyped
  BY <1>1, <1>2, <1>5, <1>8, <1>10 DEF RoleTyped, RowSet
<1>12. Numbered(rows)
  BY <1>3, <1>6, <1>9 DEF Numbered
<1>13. \A n \in Names : rows[n].id # 0 => rows[n].id <= many /\ rows[n].pin.sha <= many
  BY <1>1, <1>3, <1>6, <1>9
<1>14. RowsNumbered
  <2>1. dispatch = registered(rows, commits) /\ rowCount = many
    BY <1>2
  <2>2. \A i \in dispatch : \E n \in Names : rows[n].id = i /\ rows[n].id # 0
    BY <1>8, <1>12, <2>1, RegisteredRow
  <2>3. \A n \in Names : rows[n].id # 0 /\ ~rows[n].agent => rows[n].id \notin dispatch
    BY <1>8, <1>12, <2>1, RegisteredRow DEF Declares
  <2>4. \A i \in dispatch : i \in 1 .. rowCount
    BY <1>1, <1>8, <1>13, <2>1, <2>2, RowForms
  <2> QED BY <1>5, <1>12, <1>13, <2>1, <2>3, <2>4 DEF RowsNumbered, Numbered, role
<1>15. DesksFollow
  BY <1>2, RowForms DEF DesksFollow, open
<1>16. PinResolves
  <2>1. ASSUME NEW n \in Names, pinned(n) PROVE rows[n].pin.sha \in engine
    <3>1. n \in Shipped /\ rows[n].pin.sha = number[n]
      BY <1>6, <1>9, <2>1 DEF pinned, role
    <3> QED BY <1>10, <3>1 DEF engine
  <2> QED BY <1>2, <2>1 DEF PinResolves, clone
<1>17. AckedEditsKept
  BY <1>2 DEF AckedEditsKept
<1> QED BY <1>11, <1>14, <1>15, <1>16, <1>17 DEF RoleIInv

\* The commits there were stay where they were.
Grows == /\ Len(commits) <= Len(commits')
         /\ \A c \in 1 .. Len(commits) : commits'[c] = commits[c]

\* What a step may do to a role: nothing to its pin, a pin on a new commit that
\* holds the edits promised, or a row that is not pinned yet.
PinStays(n) ==
  /\ rows'[n].id = rows[n].id /\ rows'[n].pin.sha = rows[n].pin.sha /\ kept'[n] = kept[n]
  /\ branches'[n] \in {branches[n], 0, rows[n].pin.sha} \/ branches'[n] > Len(commits)
PinMoves(n) ==
  /\ rows'[n].id = rows[n].id \/ rows'[n].id > rowCount
  /\ rows'[n].pin.sha > Len(commits) /\ rows'[n].pin.sha \in clone'
  /\ kept'[n] \subseteq commits'[rows'[n].pin.sha].edits /\ branches'[n] > Len(commits)
NotPinned(n) == rows'[n].pin.sha = 0 /\ rows'[n].id > rowCount

\* A checkout that was opened on the pin of its role.
OpensHere(k) ==
  rows'[k.branch].id = k.id /\ rows'[k.branch].pin.sha = k.base /\ k.base # 0

\* A step that does one of these to every role, and to the desks, keeps the invariant.
LEMMA RolesFollow ==
  ASSUME RoleIInv, RoleTyped', RowsNumbered', Grows, clone \subseteq clone', rowCount <= rowCount',
         \A n \in Names : role(n)' => PinStays(n) \/ PinMoves(n) \/ NotPinned(n),
         \A d \in Desks : open(d)' => desk'[d] = desk[d] \/ OpensHere(desk'[d])
  PROVE  RoleIInv'
<1>1. Len(commits) \in Nat /\ Len(commits') \in Nat /\ rowCount \in Nat /\ rowCount' \in Nat
  BY DEF RoleIInv, RoleTyped
<1>2. ASSUME NEW n \in Names, pinned(n)'
      PROVE  rows'[n].pin.sha \in clone' /\ kept'[n] \subseteq content(n)'.edits
  <2>1. role(n)' /\ rows'[n].pin.sha # 0
    BY <1>2 DEF pinned
  <2>2. CASE PinStays(n)
    <3>1. pinned(n) /\ rows'[n].pin.sha = rows[n].pin.sha /\ kept'[n] = kept[n]
      BY <2>1, <2>2 DEF PinStays, pinned, role
    <3>2. rows[n].pin.sha \in clone /\ kept[n] \subseteq content(n).edits
      BY <3>1 DEF RoleIInv, PinResolves, AckedEditsKept
    <3>3. rows[n] \in RoleRows /\ rows[n].pin.sha <= Len(commits)
      BY <3>1, RowForms DEF RoleIInv, RoleTyped, RowsNumbered, pinned, role, RowSet
    <3>4. rows[n].pin.sha \in 1 .. Len(commits)
      BY <1>1, <3>1, <3>3, RowForms DEF pinned
    <3>5. content(n)' = content(n)
      BY <3>1, <3>4 DEF content, Grows
    <3> QED BY <3>1, <3>2, <3>5
  <2>3. CASE PinMoves(n)
    BY <2>3 DEF PinMoves, content
  <2>4. CASE NotPinned(n)
    BY <2>1, <2>4 DEF NotPinned
  <2> QED BY <2>1, <2>2, <2>3, <2>4
<1>3. PinResolves' /\ AckedEditsKept'
  BY <1>2 DEF PinResolves, AckedEditsKept
<1>4. ASSUME NEW d \in Desks, open(d)', OpensHere(desk'[d])
      PROVE  /\ desk'[d].id <= rowCount' /\ desk'[d].base \in 1 .. Len(commits')
             /\ \A n \in Names : n = desk'[d].branch => pinned(n)' /\ rows'[n].pin.sha = desk'[d].base
  <2>1. PICK k \in OpenDesks : k = desk'[d]
    BY <1>4, DeskForms DEF RoleTyped, open
  <2>2. k.id # 0 /\ k.branch \in Names /\ k.base \in Nat
    BY <2>1, DeskForms
  <2>2a. PICK n \in Names : n = k.branch
    BY <2>2
  <2>3. rows'[n].id = k.id /\ rows'[n].pin.sha = k.base /\ k.base # 0
    BY <1>4, <2>1, <2>2a DEF OpensHere
  <2>4. role(n)' /\ pinned(n)'
    BY <2>2, <2>3 DEF role, pinned
  <2>5. k.id <= rowCount' /\ k.base <= Len(commits')
    BY <2>2, <2>3, <2>4 DEF RowsNumbered
  <2> QED BY <1>1, <2>1, <2>2, <2>2a, <2>3, <2>4, <2>5
<1>5. ASSUME NEW d \in Desks, open(d)', desk'[d] = desk[d]
      PROVE  /\ desk'[d].id <= rowCount' /\ desk'[d].base \in 1 .. Len(commits')
             /\ \A n \in Names : n = desk'[d].branch /\ rows'[n].id = desk'[d].id =>
                  pinned(n)' /\ (branches'[n] = desk'[d].base => rows'[n].pin.sha = desk'[d].base)
  <2>1. open(d)
    BY <1>5 DEF open
  <2>2. PICK k \in OpenDesks : k = desk[d] /\ k = desk'[d]
    BY <1>5, <2>1, DeskForms DEF RoleIInv, RoleTyped, open
  <2>3. k.id \in Nat /\ k.id # 0 /\ k.branch \in Names /\ k.base \in Nat
    BY <2>2, DeskForms
  <2>4. PICK n \in Names : n = k.branch
    BY <2>3
  <2>5. /\ k.id <= rowCount /\ k.base \in 1 .. Len(commits)
        /\ rows[n].id = k.id => pinned(n) /\ (branches[n] = k.base => rows[n].pin.sha = k.base)
    BY <2>1, <2>2, <2>4 DEF RoleIInv, DesksFollow, stale
  <2>6. k.id <= rowCount' /\ k.base \in 1 .. Len(commits')
    BY <1>1, <2>3, <2>5 DEF Grows
  <2>7. ASSUME rows'[n].id = k.id PROVE pinned(n)' /\ (branches'[n] = k.base => rows'[n].pin.sha = k.base)
    <3>1. role(n)' /\ ~(rows'[n].id > rowCount)
      BY <1>1, <2>3, <2>5, <2>7 DEF role
    <3>2. rows'[n].pin.sha \in Nat /\ branches'[n] \in Nat
      BY <3>1, RowForms DEF RoleTyped, RowSet, role
    <3>3. CASE PinStays(n)
      <4>1. rows[n].id = k.id /\ rows'[n].pin.sha = rows[n].pin.sha
        BY <2>7, <3>3 DEF PinStays
      <4>2. pinned(n) /\ (branches[n] = k.base => rows[n].pin.sha = k.base)
        BY <2>5, <4>1
      <4>3. pinned(n)'
        BY <3>1, <4>1, <4>2 DEF pinned
      <4>4. ASSUME branches'[n] = k.base PROVE rows[n].pin.sha = k.base
        BY <1>1, <2>5, <3>2, <3>3, <4>2, <4>4 DEF PinStays
      <4> QED BY <4>1, <4>3, <4>4
    <3>4. CASE PinMoves(n)
      <4>1. rows'[n].pin.sha > Len(commits) /\ branches'[n] > Len(commits)
        BY <3>4 DEF PinMoves
      <4>2. rows'[n].pin.sha # 0 /\ branches'[n] # k.base
        BY <1>1, <2>5, <3>2, <4>1
      <4> QED BY <3>1, <4>2 DEF pinned
    <3> QED BY <3>1, <3>3, <3>4 DEF NotPinned
  <2> QED BY <2>2, <2>4, <2>6, <2>7
<1>6. DesksFollow'
  <2>1. ASSUME NEW d \in Desks, open(d)'
        PROVE  /\ desk'[d].id <= rowCount' /\ desk'[d].base \in 1 .. Len(commits')
               /\ \A n \in Names : n = desk'[d].branch /\ rows'[n].id = desk'[d].id =>
                    pinned(n)' /\ (branches'[n] = desk'[d].base => rows'[n].pin.sha = desk'[d].base)
    <3>1. CASE desk'[d] = desk[d]
      BY <1>5, <2>1, <3>1
    <3>2. CASE OpensHere(desk'[d])
      BY <1>4, <2>1, <3>2
    <3> QED BY <2>1, <3>1, <3>2
  <2> QED BY <2>1 DEF DesksFollow
<1> QED BY <1>3, <1>6 DEF RoleIInv

\* A boot, or a reload of every role, leaves the scheduler in step.
LEMMA Reregistered ==
  ASSUME rows' \in [Names -> RowSet], Numbered(rows'), dispatch' = registered(rows', commits'), rowCount' \in Nat,
         \A n \in Names : role(n)' => rows'[n].id <= rowCount' /\ rows'[n].pin.sha <= Len(commits')
  PROVE  RowsNumbered' /\ \A n \in Names : inStep(n)'
<1>1. \A n \in Names : rows'[n].id # 0 => (rows'[n].id \in dispatch' <=> Declares(rows'[n], commits'))
  BY RegisteredRow
<1>2. \A i \in dispatch' : \E n \in Names : rows'[n].id = i /\ rows'[n].id # 0
  BY RegisteredRow
<1>3. \A i \in dispatch' : i \in 1 .. rowCount'
  BY <1>2, RowForms DEF role
<1>4. \A n \in Names : role(n)' /\ ~rows'[n].agent => rows'[n].id \notin dispatch'
  BY <1>1 DEF Declares, role
<1>5. RowsNumbered'
  BY <1>3, <1>4 DEF RowsNumbered, Numbered, role
<1>6. \A n \in Names : inStep(n)'
  BY <1>1 DEF inStep, pinned, role, Declares, content
<1> QED BY <1>5, <1>6

\* What TriggersStayInStep supposes of a step, and what is shown of every step: the
\* invariant, and that the scheduler stays in step.
Calm == (\A n \in Names : inStep(n) /\ ~turned(n)) /\ (\A d \in Desks : ~forcedOver(d))
Follows == RoleIInv' /\ (Calm => \A n \in Names : inStep(n)')

\* A step that touches neither the rows nor the commits.
LEMMA RowsStay ==
  ASSUME RoleIInv, RoleTyped', UNCHANGED <<commits, rows, rowCount, dispatch, kept>>, clone \subseteq clone',
         \A n \in Names : branches'[n] \in {branches[n], rows[n].pin.sha},
         \A d \in Desks : open(d)' => desk'[d] = desk[d] \/ OpensHere(desk'[d])
  PROVE  Follows
<1>1. RowsNumbered'
  BY DEF RoleIInv, RowsNumbered, role
<1>2. \A n \in Names : inStep(n)' <=> inStep(n)
  BY DEF inStep, pinned, role, content
<1>3. Grows /\ rowCount <= rowCount'
  BY DEF Grows, RoleIInv, RoleTyped
<1>4. \A n \in Names : PinStays(n)
  BY DEF PinStays
<1>5. RoleIInv'
  BY <1>1, <1>3, <1>4, RolesFollow
<1> QED BY <1>2, <1>5 DEF Follows, Calm

\* The clone is made or brought up to date.
LEMMA FetchStep == ASSUME RoleIInv, FetchUpstream PROVE Follows
<1>1. RoleTyped'
  BY DEF FetchUpstream, RoleIInv, RoleTyped
<1>2. clone \subseteq clone'
  <2>1. engine' = engine
    BY DEF FetchUpstream, engine
  <2>2. objects' = {} => clone = {}
    BY DEF FetchUpstream
  <2> QED BY <2>1, <2>2 DEF FetchUpstream, clone
<1> QED BY <1>1, <1>2, RowsStay DEF FetchUpstream, open

\* A client reads the role.
LEMMA ReadStep == ASSUME RoleIInv, NEW n \in Names, ReadRole(n) PROVE Follows
<1>1. rows[n] \in RoleRows /\ rows[n].pin.sha # 0 /\ rows[n].pin.sha <= Len(commits)
  BY RowForms DEF ReadRole, resolvable, pinned, role, RoleIInv, RoleTyped, RowSet, RowsNumbered
<1>2. content(n) \in Trees
  BY <1>1, RowForms DEF content, RoleIInv, RoleTyped
<1>3. draft' = [id |-> rows[n].id, name |-> n, edits |-> content(n).edits]
  BY DEF ReadRole
<1>4. draft' \in Drafts
  BY <1>1, <1>2, <1>3 DEF Drafts, Trees, RoleRows
<1>5. RoleTyped'
  BY <1>4 DEF ReadRole, RoleIInv, RoleTyped
<1>6. clone' = clone
  BY ClonedFrom DEF ReadRole
<1> QED BY <1>5, <1>6, RowsStay DEF ReadRole, open

\* What the invariant says of a role that is pinned.
LEMMA PinnedRow ==
  ASSUME RoleIInv, NEW n \in Names, pinned(n)
  PROVE  /\ rows[n] \in RoleRows /\ rows[n].id \in Nat \ {0} /\ rows[n].pin.sha \in 1 .. Len(commits)
         /\ rows[n].id <= rowCount /\ content(n) \in Trees /\ kept[n] \subseteq content(n).edits
<1>1. rows[n] \in RoleRows /\ rows[n].pin.sha # 0 /\ rows[n].pin.sha <= Len(commits) /\ rows[n].id <= rowCount
  BY RowForms DEF pinned, role, RoleIInv, RoleTyped, RowSet, RowsNumbered
<1>2. rows[n].pin.sha \in 1 .. Len(commits) /\ rows[n].id \in Nat \ {0}
  BY <1>1, RowForms DEF RoleIInv, RoleTyped
<1>3. content(n) \in Trees
  BY <1>2 DEF content, RoleIInv, RoleTyped
<1> QED BY <1>1, <1>2, <1>3 DEF RoleIInv, AckedEditsKept

\* A checkout: the branch is put on the pin, and the desk is based on it.
LEMMA OpenStep == ASSUME RoleIInv, NEW d \in Desks, NEW n \in Names, OpenCheckout(d, n) PROVE Follows
<1> DEFINE k == [id |-> rows[n].id, branch |-> n, base |-> rows[n].pin.sha]
<1>1. pinned(n) /\ objects' = clone /\ branches' = editBranch(n) /\ desk' = [desk EXCEPT ![d] = k]
      /\ UNCHANGED <<commits, upstream, rows, rowCount, edits, draft, dispatch, kept>>
  BY DEF OpenCheckout, resolvable
<1>2. rows[n].id \in Nat \ {0} /\ rows[n].pin.sha \in Nat /\ rows[n].pin.sha # 0
  BY <1>1, PinnedRow DEF RoleIInv, RoleTyped
<1>3. k \in OpenDesks /\ k.id = rows[n].id /\ k.branch = n /\ k.base = rows[n].pin.sha
  BY <1>2 DEF OpenDesks
<1> HIDE DEF k
<1>4. /\ desk' \in [Desks -> {None} \cup OpenDesks] /\ desk'[d] = k
      /\ \A e \in Desks : e # d => desk'[e] = desk[e]
  BY <1>1, <1>3 DEF RoleIInv, RoleTyped
<1>5. /\ branches' \in [Names -> Nat]
      /\ \A m \in Names : branches'[m] \in {branches[m], rows[m].pin.sha}
  BY <1>1, <1>2 DEF editBranch, RoleIInv, RoleTyped
<1>6. RoleTyped'
  BY <1>1, <1>4, <1>5 DEF RoleIInv, RoleTyped
<1>7. clone' = clone
  BY <1>1, ClonedFrom
<1>8. OpensHere(k)
  BY <1>1, <1>2, <1>3 DEF OpensHere
<1>9. \A e \in Desks : desk'[e] = desk[e] \/ OpensHere(desk'[e])
  BY <1>4, <1>8
<1> QED BY <1>1, <1>5, <1>6, <1>7, <1>9, RowsStay

\* A checkout is discarded.
LEMMA DiscardStep == ASSUME RoleIInv, NEW d \in Desks, DiscardCheckout(d) PROVE Follows
<1>1. desk' = [desk EXCEPT ![d] = None]
      /\ UNCHANGED <<commits, upstream, objects, branches, rows, rowCount, edits, draft, dispatch, kept>>
  BY DEF DiscardCheckout
<1>2. /\ desk' \in [Desks -> {None} \cup OpenDesks] /\ desk'[d] = None
      /\ \A e \in Desks : e # d => desk'[e] = desk[e]
  BY <1>1 DEF RoleIInv, RoleTyped
<1>3. RoleTyped'
  BY <1>1, <1>2 DEF RoleIInv, RoleTyped
<1>4. \A e \in Desks : open(e)' => desk'[e] = desk[e]
  BY <1>2, RowForms DEF open
<1>5. clone' = clone
  BY <1>1 DEF clone, engine
<1> QED BY <1>1, <1>3, <1>4, <1>5, RowsStay

\* Nothing happens.
LEMMA RoleStutter == ASSUME RoleIInv, UNCHANGED roleVars PROVE Follows
<1>1. RoleTyped'
  BY DEF roleVars, RoleIInv, RoleTyped
<1>2. clone' = clone
  BY DEF roleVars, clone, engine
<1> QED BY <1>1, <1>2, RowsStay DEF roleVars, open

\* An agent of the role is spawned: its triggers are registered with it.
LEMMA EstablishStep == ASSUME RoleIInv, NEW n \in Names, Establish(n) PROVE Follows
<1>1. /\ pinned(n) /\ ~rows[n].agent /\ rows' = [rows EXCEPT ![n].agent = TRUE]
      /\ dispatch' = dispatch \cup (registered(rows', commits) \cap {rows[n].id})
      /\ UNCHANGED <<commits, upstream, objects, branches, rowCount, edits, desk, draft, kept>>
  BY DEF Establish, resolvable
<1>2. rows[n] \in RoleRows /\ rows[n].id \in Nat \ {0} /\ rows[n].id <= rowCount
  BY <1>1, PinnedRow
<1> DEFINE row == [rows[n] EXCEPT !.agent = TRUE]
<1>3. /\ row \in RoleRows /\ row.id = rows[n].id /\ row.pin = rows[n].pin /\ row.agent
      /\ row.persistent = rows[n].persistent
  BY <1>2 DEF RoleRows
<1>3a. rows' = [rows EXCEPT ![n] = row]
  BY <1>1
<1> HIDE DEF row
<1>4. rows' \in [Names -> RowSet] /\ rows'[n] = row /\ \A m \in Names : m # n => rows'[m] = rows[m]
  BY <1>3, <1>3a, RowForms DEF RoleIInv, RoleTyped, RowSet
<1>5. \A m \in Names : rows'[m].id = rows[m].id /\ rows'[m].pin = rows[m].pin /\ rows'[m].persistent = rows[m].persistent
  BY <1>3, <1>4
<1>6. Numbered(rows')
  BY <1>5 DEF Numbered, RoleIInv, RowsNumbered, role
<1>7. \A m \in Names : rows'[m].id # 0 =>
        (rows'[m].id \in registered(rows', commits) <=> Declares(rows'[m], commits))
  BY <1>4, <1>6, RegisteredRow
<1>8. \A i \in dispatch' : i \in 1 .. rowCount
  BY <1>1, <1>2 DEF RoleIInv, RoleTyped, RowsNumbered
<1>9. rows[n].id \notin dispatch
  BY <1>1 DEF RoleIInv, RowsNumbered, pinned
<1>10. \A m \in Names : m # n /\ role(m) => (rows[m].id \in dispatch' <=> rows[m].id \in dispatch)
  BY <1>1 DEF RoleIInv, RowsNumbered, pinned
<1>11. RowsNumbered'
  <2>1. \A m \in Names : role(m)' => rows'[m].id <= rowCount' /\ rows'[m].pin.sha <= Len(commits')
    BY <1>1, <1>5 DEF RoleIInv, RowsNumbered, role
  <2>2. \A m \in Names : role(m)' /\ ~rows'[m].agent => rows'[m].id \notin dispatch'
    BY <1>3, <1>4, <1>5, <1>10 DEF RoleIInv, RowsNumbered, role
  <2> QED BY <1>1, <1>6, <1>8, <2>1, <2>2 DEF RowsNumbered, Numbered, role
<1>12. RoleTyped'
  BY <1>1, <1>4 DEF RoleIInv, RoleTyped, RowSet
<1>13. \A m \in Names : PinStays(m)
  BY <1>1, <1>5 DEF PinStays
<1>14. Grows /\ rowCount <= rowCount' /\ clone \subseteq clone'
  BY <1>1 DEF Grows, RoleIInv, RoleTyped, clone, engine
<1>15. RoleIInv'
  BY <1>1, <1>11, <1>12, <1>13, <1>14, RolesFollow DEF open
<1>16. ASSUME NEW m \in Names, inStep(m) PROVE inStep(m)'
  <2>1. CASE m = n
    <3>1. rows'[n].id \in dispatch' <=> Declares(rows'[n], commits)
      <4>1. rows'[n].id = rows[n].id /\ rows'[n].id # 0
        BY <1>2, <1>5
      <4>2. dispatch' = dispatch \cup (registered(rows', commits) \cap {rows[n].id})
        BY <1>1
      <4>3. rows'[n].id \in dispatch' <=> rows'[n].id \in registered(rows', commits)
        BY <1>9, <4>1, <4>2
      <4> QED BY <1>7, <4>1, <4>3
    <3> QED BY <1>1, <2>1, <3>1 DEF inStep, pinned, role, content, Declares
  <2>2. CASE m # n
    BY <1>1, <1>4, <1>10, <1>16, <2>2 DEF inStep, pinned, role, content
  <2> QED BY <2>1, <2>2
<1> QED BY <1>15, <1>16 DEF Follows, Calm

\* A boot, with a bundle that changed or without.
LEMMA BootsStep ==
  ASSUME RoleIInv, NEW s \in Shipped, NEW drifted \in BOOLEAN, EngineBoots(s, drifted)
  PROVE  Follows
<1>1. /\ rows' = established(rows) /\ dispatch' = registered(rows', commits')
      /\ UNCHANGED <<objects, branches, rowCount, edits, desk, draft, kept>>
  BY DEF EngineBoots
<1>2. /\ commits' \in Seq(Trees) /\ Grows
      /\ upstream' \in [Shipped -> Seq(Nat)] /\ engine \subseteq engine'
  <2>1. CASE drifted
    <3>1. [edits |-> {}, triggers |-> FALSE] \in Trees
      BY DEF Trees
    <3>2. commits' = Append(commits, [edits |-> {}, triggers |-> FALSE]) /\ upstream' = advance(s, Len(commits'))
      BY <2>1 DEF EngineBoots
    <3>3. commits' \in Seq(Trees) /\ Grows /\ Len(commits') \in Nat
      BY <3>1, <3>2 DEF Grows, RoleIInv, RoleTyped
    <3>4. upstream' \in [Shipped -> Seq(Nat)] /\ engine \subseteq engine'
      <4>1. PICK c \in Nat : c = Len(commits')
        BY <3>3
      <4> QED BY <3>2, <4>1, AdvanceKeeps DEF RoleIInv
    <3> QED BY <3>3, <3>4
  <2>2. CASE ~drifted
    <3>1. UNCHANGED <<commits, upstream>>
      BY <2>2 DEF EngineBoots
    <3> QED BY <3>1 DEF Grows, engine, RoleIInv, RoleTyped
  <2> QED BY <2>1, <2>2
<1>3. rows \in [Names -> RowSet]
  BY DEF RoleIInv, RoleTyped, RowSet
<1>4. /\ rows' \in [Names -> RowSet]
      /\ \A n \in Names : rows'[n].id = rows[n].id /\ (rows[n].id # 0 => rows'[n].pin = rows[n].pin)
  BY <1>1, <1>3, EstablishedRow
<1>5. Numbered(rows')
  BY <1>4 DEF Numbered, RoleIInv, RowsNumbered, role
<1>6. \A n \in Names : role(n)' => rows'[n].id <= rowCount' /\ rows'[n].pin.sha <= Len(commits')
  <2>1. ASSUME NEW n \in Names, role(n)' PROVE rows'[n].id <= rowCount' /\ rows'[n].pin.sha <= Len(commits')
    <3>1. role(n) /\ rows'[n].id = rows[n].id /\ rows'[n].pin = rows[n].pin
      BY <1>4, <2>1 DEF role
    <3>2. rows[n].pin.sha \in Nat /\ rows[n].pin.sha <= Len(commits) /\ rows[n].id <= rowCount
      BY <1>3, <3>1, RowForms DEF RoleIInv, RowsNumbered, role
    <3>3. Len(commits) \in Nat /\ Len(commits') \in Nat
      BY <1>2 DEF RoleIInv, RoleTyped
    <3> QED BY <1>1, <1>2, <3>1, <3>2, <3>3 DEF Grows
  <2> QED BY <2>1
<1>7. RowsNumbered' /\ \A n \in Names : inStep(n)'
  BY <1>1, <1>4, <1>5, <1>6, Reregistered DEF RoleIInv, RoleTyped
<1>8. RoleTyped'
  BY <1>1, <1>2, <1>4 DEF RoleIInv, RoleTyped, RowSet
<1>9. clone \subseteq clone' /\ rowCount <= rowCount'
  BY <1>1, <1>2 DEF clone, RoleIInv, RoleTyped
<1>10. \A n \in Names : role(n)' => PinStays(n)
  BY <1>1, <1>4 DEF PinStays, role
<1>11. RoleIInv'
  BY <1>1, <1>2, <1>7, <1>8, <1>9, <1>10, RolesFollow DEF open
<1> QED BY <1>7, <1>11 DEF Follows

\* The row after a commit: moved unless only the commit was made, and established
\* by the boot unless the handler answered.
LEMMA FinalizeRow ==
  ASSUME RoleIInv, NEW n \in Names, pinned(n), NEW at \in [Names -> Nat], NEW tree \in Trees,
         NEW persistent \in BOOLEAN, NEW base, NEW reach, Finalize(n, at, tree, persistent, base, reach)
  PROVE  /\ rows' \in [Names -> RowSet]
         /\ \A m \in Names : rows'[m].id = rows[m].id
         /\ \A m \in Names : m # n /\ role(m) => rows'[m].pin = rows[m].pin
         /\ reach = "committed" => rows'[n].pin = rows[n].pin
         /\ reach # "committed" => rows'[n].pin.sha = Len(commits) + 1
         /\ reach = "answered" => /\ rows'[n].persistent = persistent /\ rows'[n].agent = rows[n].agent
                                  /\ \A m \in Names : m # n => rows'[m] = rows[m]
<1> DEFINE sha == Len(commits) + 1
           pin == [own |-> TRUE, sha |-> sha]
           row == [rows[n] EXCEPT !.pin = pin]
           full == [row EXCEPT !.persistent = persistent]
           to == IF reach = "committed" THEN rows[n] ELSE IF reach = "pinned" THEN row ELSE full
           after == [rows EXCEPT ![n] = to]
<1>1. sha \in Nat /\ rows[n] \in RoleRows /\ rows \in [Names -> RowSet] /\ rows[n].id \in Nat \ {0}
  BY PinnedRow DEF RoleIInv, RoleTyped, RowSet
<1>2. pin \in [own : BOOLEAN, sha : Nat] /\ pin.sha = sha
  BY <1>1
<1>3. rows' = IF reach = "answered" THEN after ELSE established(after)
  BY DEF Finalize
<1> HIDE DEF pin
<1>4. row \in RoleRows /\ row.id = rows[n].id /\ row.pin = pin /\ row.agent = rows[n].agent
  BY <1>1, <1>2 DEF RoleRows
<1> HIDE DEF row
<1>5. full \in RoleRows /\ full.id = rows[n].id /\ full.pin = pin /\ full.agent = rows[n].agent
      /\ full.persistent = persistent
  BY <1>4 DEF RoleRows
<1> HIDE DEF full
<1>6. /\ to \in RoleRows /\ to.id = rows[n].id
      /\ reach = "committed" => to.pin = rows[n].pin
      /\ reach # "committed" => to.pin = pin
      /\ reach = "answered" => to.persistent = persistent /\ to.agent = rows[n].agent
  BY <1>1, <1>4, <1>5
<1> HIDE DEF to
<1>7. after \in [Names -> RowSet] /\ after[n] = to /\ \A m \in Names : m # n => after[m] = rows[m]
  BY <1>1, <1>6, RowForms
<1> HIDE DEF after
<1>8. /\ rows' \in [Names -> RowSet]
      /\ \A m \in Names : rows'[m].id = after[m].id /\ (after[m].id # 0 => rows'[m].pin = after[m].pin)
  BY <1>3, <1>7, EstablishedRow
<1>9. to.id # 0
  BY <1>1, <1>6
<1>10. rows'[n].pin = to.pin
  BY <1>7, <1>8, <1>9
<1> QED BY <1>2, <1>3, <1>6, <1>7, <1>8, <1>10 DEF role

\* Every edit ends in finalizeRoleCommit, at whatever point the crash comes: what
\* is asked of the edit is that it keeps the edits it does not override and that
\* the triggers it compares with are those of the pin.
LEMMA FinalizeStep ==
  ASSUME RoleIInv, NEW n \in Names, pinned(n), NEW at \in [Names -> Nat], NEW tree \in Trees,
         NEW persistent \in BOOLEAN, NEW base, NEW reach, Finalize(n, at, tree, persistent, base, reach),
         \A m \in Names : m # n => at[m] \in {branches[m], 0, rows[m].pin.sha},
         kept' \in [Names -> SUBSET Nat], \A m \in Names : m # n => kept'[m] = kept[m],
         reach = "committed" => kept'[n] = kept[n],
         reach # "committed" => kept'[n] \subseteq tree.edits,
         edits' \in Nat, draft' \in {None} \cup Drafts, desk' \in [Desks -> {None} \cup OpenDesks],
         \A d \in Desks : open(d)' => desk'[d] = desk[d],
         reach = "answered" /\ Calm => (tree.triggers <=> content(n).triggers)
                                        \/ (reloads(tree, persistent, base) <=> persistent /\ tree.triggers # content(n).triggers)
  PROVE  Follows
<1> DEFINE sha == Len(commits) + 1
<1>1. /\ tree.triggers => persistent
      /\ commits' = Append(commits, tree) /\ objects' = clone \cup {sha} /\ branches' = [at EXCEPT ![n] = sha]
      /\ UNCHANGED <<upstream, rowCount>>
  BY DEF Finalize
<1>2. Len(commits) \in Nat /\ commits \in Seq(Trees) /\ sha \in Nat /\ sha > Len(commits)
  BY DEF RoleIInv, RoleTyped
<1>3. /\ commits' \in Seq(Trees) /\ Len(commits') = sha /\ commits'[sha] = tree /\ Grows
  BY <1>1, <1>2 DEF Grows
<1>4. branches' \in [Names -> Nat] /\ branches'[n] = sha /\ \A m \in Names : m # n => branches'[m] = at[m]
  BY <1>1, <1>2
<1>5. clone \subseteq clone' /\ sha \in clone'
  BY <1>1 DEF clone
<1> HIDE DEF sha
<1>6. /\ rows' \in [Names -> RowSet]
      /\ \A m \in Names : rows'[m].id = rows[m].id
      /\ \A m \in Names : m # n /\ role(m) => rows'[m].pin = rows[m].pin
      /\ reach = "committed" => rows'[n].pin = rows[n].pin
      /\ reach # "committed" => rows'[n].pin.sha = sha
      /\ reach = "answered" => /\ rows'[n].persistent = persistent /\ rows'[n].agent = rows[n].agent
                               /\ \A m \in Names : m # n => rows'[m] = rows[m]
  BY FinalizeRow DEF sha
<1>7. RoleTyped'
  BY <1>1, <1>3, <1>4, <1>6 DEF RoleIInv, RoleTyped, RowSet
<1>8. Numbered(rows')
  <2>1. \A m \in Names : rows'[m].id = rows[m].id
    BY <1>6
  <2>2. \A m, k \in Names : rows[m].id # 0 /\ rows[k].id # 0 /\ rows[m].id = rows[k].id => m = k
    BY DEF RoleIInv, RowsNumbered, role
  <2> QED BY <2>1, <2>2 DEF Numbered
<1>9. \A m \in Names : role(m)' => rows'[m].id <= rowCount' /\ rows'[m].pin.sha <= Len(commits')
  <2>1. ASSUME NEW m \in Names, role(m)' PROVE rows'[m].id <= rowCount' /\ rows'[m].pin.sha <= Len(commits')
    <3>1. role(m) /\ rows'[m].id = rows[m].id
      BY <1>6, <2>1 DEF role
    <3>2. rows[m].id <= rowCount /\ rows[m].pin.sha <= Len(commits) /\ rows[m].pin.sha \in Nat
      BY <3>1, RowForms DEF RoleIInv, RoleTyped, RowSet, RowsNumbered, role
    <3>3. rows'[m].pin.sha = rows[m].pin.sha \/ rows'[m].pin.sha = sha
      BY <1>6, <3>1
    <3> QED BY <1>1, <1>2, <1>3, <3>1, <3>2, <3>3
  <2> QED BY <2>1
<1>10. \A m \in Names : role(m)' => PinStays(m) \/ PinMoves(m)
  <2>1. ASSUME NEW m \in Names, role(m)', m # n PROVE PinStays(m)
    BY <1>4, <1>6, <2>1 DEF PinStays, role
  <2>2. reach = "committed" => PinStays(n)
    BY <1>2, <1>4, <1>6 DEF PinStays
  <2>3. reach # "committed" => PinMoves(n)
    BY <1>2, <1>3, <1>4, <1>5, <1>6 DEF PinMoves
  <2> QED BY <2>1, <2>2, <2>3
<1>11. ASSUME RowsNumbered' PROVE RoleIInv'
  <2>1. rowCount <= rowCount'
    BY <1>1 DEF RoleIInv, RoleTyped
  <2> QED BY <1>3, <1>5, <1>7, <1>10, <1>11, <2>1, RolesFollow
<1>12. CASE reach # "answered"
  <2>1. dispatch' = registered(rows', commits')
    BY <1>12 DEF Finalize
  <2>2. RowsNumbered' /\ \A m \in Names : inStep(m)'
    BY <1>6, <1>7, <1>8, <1>9, <2>1, Reregistered DEF RoleTyped
  <2> QED BY <1>11, <2>2 DEF Follows
<1>13. CASE reach = "answered"
  <2> DEFINE id == rows[n].id
  <2>1. id \in Nat \ {0} /\ id <= rowCount
    BY PinnedRow
  <2>2. /\ reloads(tree, persistent, base) => dispatch' = (dispatch \ {id}) \cup (registered(rows', commits') \cap {id})
        /\ ~reloads(tree, persistent, base) => dispatch' = dispatch
    BY <1>13 DEF Finalize, reloaded
  <2> HIDE DEF id
  <2>3. \A m \in Names : rows'[m].id # 0 =>
          (rows'[m].id \in registered(rows', commits') <=> Declares(rows'[m], commits'))
    BY <1>6, <1>8, RegisteredRow
  <2>4. \A i \in dispatch' : i \in 1 .. rowCount'
    BY <1>1, <2>1, <2>2 DEF RoleIInv, RoleTyped, RowsNumbered
  <2>5. \A i : i # id => (i \in dispatch' <=> i \in dispatch)
    BY <2>2
  <2>6. rows'[n].id = id /\ id # 0 /\ \A m \in Names : m # n /\ role(m) => rows[m].id # id
    BY <1>6, <2>1 DEF id, RoleIInv, RowsNumbered, role
  <2>7. \A m \in Names : role(m)' /\ ~rows'[m].agent => rows'[m].id \notin dispatch'
    <3>1. ASSUME NEW m \in Names, m # n, role(m)', ~rows'[m].agent PROVE rows'[m].id \notin dispatch'
      BY <1>6, <1>13, <2>5, <2>6, <3>1 DEF RoleIInv, RowsNumbered, role
    <3>2. ASSUME ~rows'[n].agent PROVE id \notin dispatch'
      <4>1. ~rows[n].agent /\ id \notin dispatch
        BY <1>6, <1>13, <2>6, <3>2 DEF RoleIInv, RowsNumbered, role, id
      <4>2. id \notin registered(rows', commits')
        BY <2>3, <2>6, <3>2 DEF Declares
      <4> QED BY <2>2, <4>1, <4>2
    <3> QED BY <2>6, <3>1, <3>2
  <2>8. RowsNumbered'
    BY <1>8, <1>9, <2>4, <2>7 DEF RowsNumbered, Numbered, role
  <2>9. ASSUME Calm, NEW m \in Names PROVE inStep(m)'
    <3>1. inStep(m) /\ inStep(n) /\ ~turned(n)
      BY <2>9 DEF Calm
    <3>2. CASE m # n
      <4>1. ASSUME role(m)', rows'[m].pin.sha # 0, rows'[m].agent
            PROVE  rows'[m].id \in dispatch' <=> rows'[m].persistent /\ content(m)'.triggers
        <5>1. rows'[m] = rows[m] /\ role(m) /\ pinned(m)
          BY <1>6, <1>13, <3>2, <4>1 DEF role, pinned
        <5>2. content(m)' = content(m)
          BY <1>3, <5>1, PinnedRow DEF content, Grows
        <5>3. rows[m].id \in dispatch' <=> rows[m].id \in dispatch
          BY <2>5, <2>6, <3>2, <5>1
        <5> QED BY <3>1, <4>1, <5>1, <5>2, <5>3 DEF inStep
      <4> QED BY <4>1 DEF inStep, pinned
    <3>3. CASE m = n
      <4>1. ASSUME role(n)', rows'[n].pin.sha # 0, rows'[n].agent
            PROVE  rows'[n].id \in dispatch' <=> rows'[n].persistent /\ content(n)'.triggers
        <5>1. role(n) /\ rows[n].agent /\ rows'[n].persistent = persistent
          BY <1>6, <1>13, <4>1 DEF role
        <5>2. rows[n].persistent = persistent
          BY <3>1, <4>1, <5>1 DEF turned
        <5>3. content(n)' = tree
          BY <1>3, <1>6, <1>13 DEF content
        <5>4. id \in dispatch <=> persistent /\ content(n).triggers
          BY <3>1, <5>1, <5>2 DEF inStep, id
        <5>5. CASE reloads(tree, persistent, base)
          <6>1. id \in dispatch' <=> id \in registered(rows', commits')
            BY <2>2, <5>5
          <6>2. id \in registered(rows', commits') <=> Declares(rows'[n], commits')
            BY <2>3, <2>6
          <6>3. Declares(rows'[n], commits') <=> persistent /\ tree.triggers
            BY <4>1, <5>1, <5>3 DEF Declares, content
          <6> QED BY <2>6, <5>1, <5>3, <6>1, <6>2, <6>3
        <5>6. CASE ~reloads(tree, persistent, base)
          <6>1. dispatch' = dispatch
            BY <2>2, <5>6
          <6>2. content(n) \in Trees
            BY PinnedRow
          <6>3. content(n).triggers \in BOOLEAN /\ tree.triggers \in BOOLEAN
            BY <6>2 DEF Trees
          <6>4. persistent /\ content(n).triggers <=> persistent /\ tree.triggers
            BY <1>13, <2>9, <5>6, <6>3
          <6> QED BY <2>6, <5>1, <5>3, <5>4, <6>1, <6>4
        <5> QED BY <5>5, <5>6
      <4> QED BY <3>3, <4>1 DEF inStep, pinned
    <3> QED BY <3>2, <3>3
  <2> QED BY <1>11, <2>8, <2>9 DEF Follows
<1> QED BY <1>12, <1>13

\* The promises an edit leaves are within the content it commits.
LEMMA KeepsRow ==
  ASSUME RoleIInv, NEW n \in Names, NEW tree \in Trees, NEW over \in BOOLEAN, NEW reach,
         ~over => kept[n] \subseteq tree.edits, kept' = keeps(n, tree, over, reach)
  PROVE  /\ kept' \in [Names -> SUBSET Nat] /\ \A m \in Names : m # n => kept'[m] = kept[m]
         /\ reach = "committed" => kept'[n] = kept[n]
         /\ reach # "committed" => kept'[n] \subseteq tree.edits
<1> DEFINE rest == IF over THEN kept[n] \cap tree.edits ELSE kept[n]
           to == IF reach = "committed" THEN kept[n] ELSE IF reach = "answered" THEN rest \cup tree.edits ELSE rest
<1>1. kept[n] \in SUBSET Nat /\ tree.edits \in SUBSET Nat
  BY DEF RoleIInv, RoleTyped, Trees
<1>2. rest \in SUBSET Nat /\ rest \subseteq tree.edits
  BY <1>1
<1>3. kept' = [kept EXCEPT ![n] = to]
  BY DEF keeps
<1> HIDE DEF rest
<1>4. /\ to \in SUBSET Nat /\ (reach = "committed" => to = kept[n])
      /\ reach # "committed" => to \subseteq tree.edits
  BY <1>1, <1>2
<1> HIDE DEF to
<1> QED BY <1>3, <1>4 DEF RoleIInv, RoleTyped

\* The content that one edit makes of another.
LEMMA EditTree ==
  ASSUME RoleIInv, edits' = edits + 1, NEW S \in SUBSET Nat, NEW triggers \in BOOLEAN
  PROVE  /\ edits' \in Nat
         /\ [edits |-> S \cup {edits'}, triggers |-> triggers] \in Trees
BY DEF RoleIInv, RoleTyped, Trees

\* A desk commits what it checked out: not stale, so on the content of the pin, or forced.
LEMMA CommitStep ==
  ASSUME RoleIInv, NEW d \in Desks, NEW force \in BOOLEAN, NEW triggers \in BOOLEAN, NEW persistent \in BOOLEAN,
         NEW reach \in Reaches, CommitCheckout(d, force, triggers, persistent, reach)
  PROVE  Follows
<1>1. open(d) /\ desk[d] \in OpenDesks
  BY DeskForms DEF CommitCheckout, open, RoleIInv, RoleTyped
<1>2. PICK n \in Names, base \in Nat : n = desk[d].branch /\ base = desk[d].base
  BY <1>1, DeskForms
<1> DEFINE tree == [edits |-> commits[base].edits \cup {edits'}, triggers |-> triggers]
<1>3. /\ rows[n].id = desk[d].id /\ (stale(d) => force) /\ edits' = edits + 1
      /\ Finalize(n, branches, tree, persistent, base, reach)
      /\ desk' = IF reach = "answered" THEN [desk EXCEPT ![d] = None] ELSE desk
      /\ kept' = keeps(n, tree, force, reach) /\ UNCHANGED draft
  BY <1>2 DEF CommitCheckout
<1>4. /\ base \in 1 .. Len(commits) /\ pinned(n)
      /\ branches[n] = base => rows[n].pin.sha = base
  BY <1>1, <1>2, <1>3 DEF RoleIInv, DesksFollow
<1>5. stale(d) <=> branches[n] # base
  BY <1>2 DEF stale
<1>6. commits[base] \in Trees
  BY <1>4 DEF RoleIInv, RoleTyped
<1>7. commits[base].edits \in SUBSET Nat
  BY <1>6 DEF Trees
<1>8. tree \in Trees /\ tree.triggers = triggers /\ edits' \in Nat /\ commits[base].edits \subseteq tree.edits
  BY <1>3, <1>7, EditTree
<1>9. ~stale(d) => content(n) = commits[base]
  BY <1>4, <1>5 DEF content
<1> HIDE DEF tree
<1>10. ~force => kept[n] \subseteq tree.edits
  BY <1>3, <1>4, <1>8, <1>9, PinnedRow
<1>11. /\ kept' \in [Names -> SUBSET Nat] /\ \A m \in Names : m # n => kept'[m] = kept[m]
       /\ reach = "committed" => kept'[n] = kept[n]
       /\ reach # "committed" => kept'[n] \subseteq tree.edits
  BY <1>3, <1>8, <1>10, KeepsRow
<1>12. /\ desk' \in [Desks -> {None} \cup OpenDesks]
       /\ \A e \in Desks : open(e)' => desk'[e] = desk[e]
       /\ reach = "answered" => ~open(d)'
  BY <1>3, RowForms DEF RoleIInv, RoleTyped, open
<1>13. reach = "answered" /\ Calm => commits[base] = content(n)
  BY <1>1, <1>9, <1>12 DEF Calm, forcedOver
<1>14. reach = "answered" /\ Calm =>
         (reloads(tree, persistent, base) <=> persistent /\ tree.triggers # content(n).triggers)
  BY <1>13 DEF reloads
<1>15. branches \in [Names -> Nat] /\ draft' \in {None} \cup Drafts
  BY <1>3 DEF RoleIInv, RoleTyped
<1> QED BY <1>3, <1>4, <1>8, <1>11, <1>12, <1>14, <1>15, FinalizeStep

\* A one-shot patch is made on the pin.
LEMMA PatchStep ==
  ASSUME RoleIInv, NEW n \in Names, NEW tree \in Trees, NEW over \in BOOLEAN, NEW reach \in Reaches,
         Patch(n, tree, over, reach), ~over => content(n).edits \subseteq tree.edits,
         edits' \in Nat, draft' \in {None} \cup Drafts
  PROVE  Follows
<1>1. /\ pinned(n) /\ Finalize(n, editBranch(n), tree, rows[n].persistent, rows[n].pin.sha, reach)
      /\ kept' = keeps(n, tree, over, reach) /\ UNCHANGED desk
  BY DEF Patch, resolvable
<1>2. rows[n] \in RoleRows /\ rows[n].pin.sha \in 1 .. Len(commits) /\ kept[n] \subseteq content(n).edits
  BY <1>1, PinnedRow
<1>3. /\ kept' \in [Names -> SUBSET Nat] /\ \A m \in Names : m # n => kept'[m] = kept[m]
      /\ reach = "committed" => kept'[n] = kept[n]
      /\ reach # "committed" => kept'[n] \subseteq tree.edits
  BY <1>1, <1>2, KeepsRow
<1>4. rows[n].persistent \in BOOLEAN /\ rows[n].pin.sha \in Nat
  BY <1>2, RowForms
<1>5. editBranch(n) \in [Names -> Nat] /\ \A m \in Names : m # n => editBranch(n)[m] = branches[m]
  BY <1>4 DEF editBranch, RoleIInv, RoleTyped
<1>6. reloads(tree, rows[n].persistent, rows[n].pin.sha)
        <=> rows[n].persistent /\ tree.triggers # content(n).triggers
  BY DEF reloads, content
<1>7. desk' \in [Desks -> {None} \cup OpenDesks] /\ \A e \in Desks : open(e)' => desk'[e] = desk[e]
  BY <1>1 DEF RoleIInv, RoleTyped
<1> QED BY <1>1, <1>3, <1>4, <1>5, <1>6, <1>7, FinalizeStep

\* A patch that adds an edit.
LEMMA ApplyEditStep ==
  ASSUME RoleIInv, NEW n \in Names, pinned(n), NEW triggers \in BOOLEAN, NEW reach \in Reaches,
         ApplyEdit(n, triggers, reach)
  PROVE  Follows
<1> DEFINE tree == [edits |-> content(n).edits \cup {edits'}, triggers |-> triggers]
<1>1. edits' = edits + 1 /\ Patch(n, tree, FALSE, reach) /\ UNCHANGED draft
  BY DEF ApplyEdit
<1>2. content(n).edits \in SUBSET Nat
  BY PinnedRow DEF Trees
<1>3. tree \in Trees /\ edits' \in Nat /\ content(n).edits \subseteq tree.edits
  BY <1>1, <1>2, EditTree
<1>4. draft' \in {None} \cup Drafts
  BY <1>1 DEF RoleIInv, RoleTyped
<1> HIDE DEF tree
<1> QED BY <1>1, <1>3, <1>4, PatchStep

\* The content of a pinned role is a commit.
LEMMA ContentTriggers ==
  ASSUME RoleIInv, NEW n \in Names, pinned(n)
  PROVE  content(n).triggers \in BOOLEAN /\ content(n).edits \in SUBSET Nat
BY PinnedRow DEF Trees

\* A patch of the triggers only.
LEMMA ApplyTriggersStep ==
  ASSUME RoleIInv, NEW n \in Names, NEW reach \in Reaches, ApplyTriggers(n, reach)
  PROVE  Follows
<1> DEFINE tree == [content(n) EXCEPT !.triggers = ~content(n).triggers]
<1>1. pinned(n) /\ Patch(n, tree, FALSE, reach) /\ UNCHANGED <<edits, draft>>
  BY DEF ApplyTriggers, resolvable
<1>2. content(n) \in Trees
  BY <1>1, PinnedRow
<1>3. tree \in Trees /\ tree.edits = content(n).edits
  <2> DEFINE v == ~content(n).triggers
  <2>1. v \in BOOLEAN /\ tree = [content(n) EXCEPT !.triggers = v]
    OBVIOUS
  <2> HIDE DEF v, tree
  <2> QED BY <1>2, <2>1 DEF Trees
<1> HIDE DEF tree
<1>4. edits' \in Nat /\ draft' \in {None} \cup Drafts
  BY <1>1 DEF RoleIInv, RoleTyped
<1> QED BY <1>1, <1>3, <1>4, PatchStep

\* A client writes back what it read before.
LEMMA WriteBackStep ==
  ASSUME RoleIInv, NEW reach \in Reaches, WriteBack(reach)
  PROVE  Follows
<1>1. draft \in Drafts
  BY DeskForms DEF WriteBack, RoleIInv, RoleTyped
<1>2. PICK n \in Names : n = draft.name
  BY <1>1, DeskForms
<1> DEFINE S == draft.edits \cup {edits'}
           tree == [content(n) EXCEPT !.edits = S]
<1>3. pinned(n) /\ edits' = edits + 1 /\ Patch(n, tree, TRUE, reach) /\ draft' = None
  BY <1>2 DEF WriteBack, resolvable
<1>4. edits' \in Nat /\ S \in SUBSET Nat
  BY <1>1, <1>3, DeskForms DEF RoleIInv, RoleTyped
<1>5. content(n) \in Trees
  BY <1>3, PinnedRow
<1> HIDE DEF S
<1>6. tree \in Trees
  BY <1>4, <1>5 DEF Trees
<1> HIDE DEF tree
<1> QED BY <1>3, <1>4, <1>6, PatchStep

\* A fork makes a commit, a row, and the pin of one on the other.
LEMMA ForkRoleStep ==
  ASSUME RoleIInv, NEW src \in Names, NEW new \in Names, NEW reach \in ForkReaches, ForkRole(src, new, reach)
  PROVE  Follows
<1> DEFINE sha == Len(commits) + 1
           id == rowCount + 1
           pin == [own |-> TRUE, sha |-> IF reach = "inserted" THEN 0 ELSE sha]
           row == [id |-> id, persistent |-> rows[src].persistent, agent |-> FALSE, pin |-> pin]
           after == IF reach = "committed" THEN rows ELSE [rows EXCEPT ![new] = row]
<1>1. /\ pinned(src) /\ ~role(new) /\ commits' = Append(commits, content(src))
      /\ rowCount' = id
      /\ kept' = IF reach = "answered" THEN [kept EXCEPT ![new] = content(src).edits] ELSE kept
      /\ dispatch' = IF reach = "answered" THEN dispatch ELSE registered(rows', commits')
      /\ UNCHANGED <<upstream, edits, desk, draft>>
  BY DEF ForkRole, resolvable
<1>2. Len(commits) \in Nat /\ content(src) \in Trees /\ commits \in Seq(Trees) /\ rowCount \in Nat
      /\ rows[src].persistent \in BOOLEAN
  BY <1>1, PinnedRow, RowForms DEF RoleIInv, RoleTyped
<1>3. /\ commits' \in Seq(Trees) /\ Len(commits') = sha /\ commits'[sha] = content(src) /\ Grows
      /\ sha \in Nat /\ sha > Len(commits)
  BY <1>1, <1>2 DEF Grows
<1>4. objects' = clone \cup {sha} /\ branches' = [branches EXCEPT ![new] = sha]
  BY <1>3 DEF ForkRole
<1>5. rows' = IF reach = "answered" THEN after ELSE established(after)
  BY <1>1, <1>3 DEF ForkRole
<1>6. /\ row \in RoleRows /\ row.id = id /\ id \in Nat /\ id > rowCount /\ row.agent = FALSE
      /\ row.pin.sha = IF reach = "inserted" THEN 0 ELSE sha
  BY <1>2, <1>3 DEF RoleRows
<1>7. rows \in [Names -> RowSet]
  BY DEF RoleIInv, RoleTyped, RowSet
<1> HIDE DEF sha, row
<1>8. /\ after \in [Names -> RowSet] /\ \A m \in Names : m # new => after[m] = rows[m]
      /\ after[new] = IF reach = "committed" THEN rows[new] ELSE row
  BY <1>6, <1>7, RowForms
<1> HIDE DEF id, after
<1>9. /\ rows' \in [Names -> RowSet]
      /\ \A m \in Names : rows'[m].id = after[m].id /\ (after[m].id # 0 => rows'[m].pin = after[m].pin)
  BY <1>5, <1>8, EstablishedRow
<1>10. \A m \in Names : m # new => rows'[m].id = rows[m].id /\ (role(m) => rows'[m].pin = rows[m].pin)
  BY <1>8, <1>9 DEF role
<1>11. role(new)' => /\ reach # "committed" /\ rows'[new].id = id
                     /\ rows'[new].pin.sha = IF reach = "inserted" THEN 0 ELSE sha
  BY <1>1, <1>6, <1>8, <1>9 DEF role
<1>12. Numbered(rows')
  <2>1. \A m \in Names : m # new /\ role(m)' => rows'[m].id # id
    BY <1>2, <1>6, <1>7, <1>10, RowForms DEF RoleIInv, RowsNumbered, role
  <2> QED BY <1>10, <1>11, <2>1 DEF Numbered, RoleIInv, RowsNumbered, role
<1>13. \A m \in Names : role(m)' => rows'[m].id <= rowCount' /\ rows'[m].pin.sha <= Len(commits')
  <2>1. ASSUME NEW m \in Names, m # new, role(m)'
        PROVE  rows'[m].id <= rowCount' /\ rows'[m].pin.sha <= Len(commits')
    <3>1. role(m) /\ rows'[m].id = rows[m].id /\ rows'[m].pin = rows[m].pin
      BY <1>10, <2>1 DEF role
    <3>2. rows[m].id <= rowCount /\ rows[m].pin.sha <= Len(commits) /\ rows[m].pin.sha \in Nat /\ rows[m].id \in Nat
      BY <1>7, <3>1, RowForms DEF RoleIInv, RowsNumbered, role
    <3> QED BY <1>1, <1>2, <1>3, <1>6, <3>1, <3>2
  <2>2. role(new)' => rows'[new].id <= rowCount' /\ rows'[new].pin.sha <= Len(commits')
    BY <1>1, <1>2, <1>3, <1>6, <1>11
  <2> QED BY <2>1, <2>2
<1>14. /\ branches' \in [Names -> Nat] /\ branches'[new] = sha
       /\ \A m \in Names : m # new => branches'[m] = branches[m]
  BY <1>3, <1>4 DEF RoleIInv, RoleTyped
<1>15. /\ kept' \in [Names -> SUBSET Nat] /\ \A m \in Names : m # new => kept'[m] = kept[m]
       /\ reach = "answered" => kept'[new] = content(src).edits
  BY <1>1, ContentTriggers DEF RoleIInv, RoleTyped
<1>16. RoleTyped'
  BY <1>1, <1>3, <1>6, <1>9, <1>14, <1>15 DEF RoleIInv, RoleTyped, RowSet
<1>17. clone \subseteq clone' /\ sha \in clone'
  BY <1>4 DEF clone
<1>18. \A m \in Names : role(m)' => PinStays(m) \/ PinMoves(m) \/ NotPinned(m)
  <2>1. ASSUME NEW m \in Names, m # new, role(m)' PROVE PinStays(m)
    BY <1>10, <1>14, <1>15, <2>1 DEF PinStays, role
  <2>2. ASSUME role(new)', reach = "inserted" PROVE NotPinned(new)
    BY <1>6, <1>11, <2>2 DEF NotPinned
  <2>3. ASSUME role(new)', reach # "inserted" PROVE PinMoves(new)
    <3>1. reach = "answered" /\ rows'[new].id = id /\ rows'[new].pin.sha = sha
      BY <1>11, <2>3 DEF ForkReaches
    <3> QED BY <1>3, <1>6, <1>14, <1>15, <1>17, <3>1 DEF PinMoves
  <2> QED BY <2>1, <2>2, <2>3
<1>19. ASSUME RowsNumbered' PROVE RoleIInv'
  <2>1. rowCount <= rowCount'
    BY <1>1, <1>2, <1>6
  <2> QED BY <1>1, <1>3, <1>16, <1>17, <1>18, <1>19, <2>1, RolesFollow DEF open
<1>20. CASE reach # "answered"
  <2>1. dispatch' = registered(rows', commits')
    BY <1>1, <1>20
  <2>2. RowsNumbered' /\ \A m \in Names : inStep(m)'
    BY <1>9, <1>12, <1>13, <1>16, <2>1, Reregistered DEF RoleTyped
  <2> QED BY <1>19, <2>2 DEF Follows
<1>21. CASE reach = "answered"
  <2>1. dispatch' = dispatch /\ rows' = after
    BY <1>1, <1>5, <1>21
  <2>2. id \notin dispatch
    BY <1>2, <1>6 DEF RoleIInv, RowsNumbered
  <2>3. rows'[new] = row /\ \A m \in Names : m # new => rows'[m] = rows[m]
    BY <1>8, <1>21, <2>1
  <2>4. \A i \in dispatch' : i \in 1 .. rowCount'
    BY <1>1, <1>2, <1>6, <2>1 DEF id, RoleIInv, RowsNumbered
  <2>5. \A m \in Names : role(m)' /\ ~rows'[m].agent => rows'[m].id \notin dispatch'
    BY <1>6, <2>1, <2>2, <2>3 DEF RoleIInv, RowsNumbered, role
  <2>6. RowsNumbered'
    BY <1>12, <1>13, <2>4, <2>5 DEF RowsNumbered, Numbered, role
  <2>7. ASSUME Calm, NEW m \in Names PROVE inStep(m)'
    <3>1. CASE m = new
      BY <1>6, <2>3, <3>1 DEF inStep
    <3>2. CASE m # new
      <4>1. rows'[m] = rows[m] /\ inStep(m)
        BY <2>3, <2>7, <3>2 DEF Calm
      <4>2. pinned(m) => content(m)' = content(m)
        BY <1>3, <4>1, PinnedRow DEF content, Grows
      <4> QED BY <2>1, <4>1, <4>2 DEF inStep, pinned, role
    <3> QED BY <3>1, <3>2
  <2> QED BY <1>19, <2>6, <2>7 DEF Follows
<1> QED BY <1>20, <1>21

\* A deletion: the branch goes, then the row; the clone keeps the commits.
LEMMA DeleteRoleStep ==
  ASSUME RoleIInv, NEW n \in Names, NEW reach \in DeleteReaches, DeleteRole(n, reach)
  PROVE  Follows
<1>1. /\ role(n)
      /\ rows' = IF reach = "answered" THEN [rows EXCEPT ![n] = None] ELSE established(rows)
      /\ kept' = IF reach = "answered" THEN [kept EXCEPT ![n] = {}] ELSE kept
      /\ dispatch' = IF reach = "answered" THEN dispatch ELSE registered(rows', commits)
      /\ UNCHANGED <<commits, upstream, rowCount, edits, desk, draft>>
  BY DEF DeleteRole
<1>2. /\ branches' \in [Names -> Nat] /\ \A m \in Names : branches'[m] \in {branches[m], 0}
      /\ clone \subseteq clone'
  <2>1. CASE pinned(n) /\ rows[n].pin.own
    <3>1. branches' = [branches EXCEPT ![n] = 0] /\ objects' = clone
      BY <2>1 DEF DeleteRole
    <3>2. clone' = clone
      BY <1>1, <3>1, ClonedFrom
    <3> QED BY <3>1, <3>2 DEF RoleIInv, RoleTyped
  <2>2. CASE ~(pinned(n) /\ rows[n].pin.own)
    <3>1. UNCHANGED <<branches, objects>>
      BY <2>2 DEF DeleteRole
    <3> QED BY <1>1, <3>1 DEF RoleIInv, RoleTyped, clone, engine
  <2> QED BY <2>1, <2>2
<1>3. rows \in [Names -> RowSet] /\ rowCount' \in Nat
  BY <1>1 DEF RoleIInv, RoleTyped, RowSet
<1>4. rows' \in [Names -> RowSet]
  BY <1>1, <1>3, EstablishedRow, RowForms
<1>5. ASSUME NEW m \in Names, role(m)'
      PROVE  role(m) /\ rows'[m].id = rows[m].id /\ rows'[m].pin = rows[m].pin /\ kept'[m] = kept[m]
  <2>1. CASE reach = "answered"
    <3>1. m # n /\ rows'[m] = rows[m] /\ kept'[m] = kept[m]
      BY <1>1, <1>3, <1>5, <2>1, RowForms DEF role, RoleIInv, RoleTyped
    <3> QED BY <1>5, <3>1 DEF role
  <2>2. CASE reach # "answered"
    BY <1>1, <1>3, <1>5, <2>2, EstablishedRow DEF role
  <2> QED BY <2>1, <2>2
<1>6. Numbered(rows')
  BY <1>5 DEF Numbered, RoleIInv, RowsNumbered, role
<1>7. \A m \in Names : role(m)' => rows'[m].id <= rowCount' /\ rows'[m].pin.sha <= Len(commits')
  BY <1>1, <1>5 DEF RoleIInv, RowsNumbered
<1>8. kept' \in [Names -> SUBSET Nat]
  BY <1>1 DEF RoleIInv, RoleTyped
<1>9. RoleTyped'
  BY <1>1, <1>2, <1>4, <1>8 DEF RoleIInv, RoleTyped, RowSet
<1>10. \A m \in Names : role(m)' => PinStays(m)
  BY <1>2, <1>5 DEF PinStays
<1>11. Grows /\ rowCount <= rowCount'
  BY <1>1 DEF Grows, RoleIInv, RoleTyped
<1>12. ASSUME RowsNumbered' PROVE RoleIInv'
  BY <1>1, <1>2, <1>9, <1>10, <1>11, <1>12, RolesFollow DEF open
<1>13. CASE reach # "answered"
  <2>1. dispatch' = registered(rows', commits')
    BY <1>1, <1>13
  <2>2. RowsNumbered' /\ \A m \in Names : inStep(m)'
    BY <1>3, <1>4, <1>6, <1>7, <2>1, Reregistered
  <2> QED BY <1>12, <2>2 DEF Follows
<1>14. CASE reach = "answered"
  <2>1. dispatch' = dispatch /\ rows'[n] = None /\ \A m \in Names : m # n => rows'[m] = rows[m]
    BY <1>1, <1>3, <1>14
  <2>2. ~role(n)'
    BY <2>1, RowForms DEF role
  <2>3. \A i \in dispatch' : i \in 1 .. rowCount'
    BY <1>1, <2>1 DEF RoleIInv, RowsNumbered
  <2>4. \A m \in Names : role(m)' /\ ~rows'[m].agent => rows'[m].id \notin dispatch'
    BY <2>1, <2>2 DEF RoleIInv, RowsNumbered, role
  <2>5. RowsNumbered'
    BY <1>6, <1>7, <2>3, <2>4 DEF RowsNumbered, Numbered, role
  <2>6. ASSUME Calm, NEW m \in Names PROVE inStep(m)'
    <3>1. CASE m = n
      BY <2>2, <3>1 DEF inStep, pinned
    <3>2. CASE m # n
      <4>1. rows'[m] = rows[m] /\ inStep(m)
        BY <2>1, <2>6, <3>2 DEF Calm
      <4> QED BY <1>1, <2>1, <4>1 DEF inStep, pinned, role, content
    <3> QED BY <3>1, <3>2
  <2> QED BY <1>12, <2>5, <2>6 DEF Follows
<1> QED BY <1>13, <1>14

\* The edits by name.
LEMMA RoleEditStep ==
  ASSUME RoleIInv, NEW n \in Names, NEW r \in Reaches,
         \/ EditWakePrograms(n, r) \/ EditPromptModules(n, r) \/ EditSelfSkills(n, r)
         \/ ApplyTriggers(n, r)
         \/ \E t \in BOOLEAN : EditByAgent(n, t, r) \/ EditByOperator(n, t, r)
  PROVE  Follows
<1>1. CASE ApplyTriggers(n, r)
  BY <1>1, ApplyTriggersStep
<1>2. CASE EditWakePrograms(n, r) \/ EditPromptModules(n, r) \/ EditSelfSkills(n, r)
  <2>1. pinned(n) /\ ApplyEdit(n, content(n).triggers, r)
    BY <1>2 DEF EditWakePrograms, EditPromptModules, EditSelfSkills, resolvable
  <2>2. PICK t \in BOOLEAN : t = content(n).triggers
    BY <2>1, ContentTriggers
  <2> QED BY <2>1, <2>2, ApplyEditStep
<1>3. CASE \E t \in BOOLEAN : EditByAgent(n, t, r) \/ EditByOperator(n, t, r)
  <2>1. PICK t \in BOOLEAN : EditByAgent(n, t, r) \/ EditByOperator(n, t, r)
    BY <1>3
  <2>2. pinned(n) /\ ApplyEdit(n, t, r)
    BY <2>1 DEF EditByAgent, EditByOperator, resolvable
  <2> QED BY <2>2, ApplyEditStep
<1> QED BY <1>1, <1>2, <1>3

\* Every step keeps the invariant, and the scheduler in step where the premise holds.
LEMMA RoleStep == RoleIInv /\ [RoleNext]_roleVars => Follows
<1> SUFFICES ASSUME RoleIInv, [RoleNext]_roleVars PROVE Follows
  OBVIOUS
<1>1. ASSUME NEW s \in Shipped, NEW drifted \in BOOLEAN, EngineBoots(s, drifted) PROVE Follows
  BY <1>1, BootsStep
<1>2. CASE FetchUpstream
  BY <1>2, FetchStep
<1>3. ASSUME NEW d \in Desks,
             \/ DiscardCheckout(d)
             \/ \E n \in Names : OpenCheckout(d, n)
             \/ \E f, t, p \in BOOLEAN, r \in Reaches : CommitCheckout(d, f, t, p, r)
      PROVE  Follows
  BY <1>3, DiscardStep, OpenStep, CommitStep
<1>4. ASSUME NEW r \in Reaches,
             \/ EditorSaves(r) \/ MergedSkills(r)
             \/ \E n \in Names :
                  \/ EditWakePrograms(n, r) \/ EditPromptModules(n, r) \/ EditSelfSkills(n, r)
                  \/ ApplyTriggers(n, r)
                  \/ \E t \in BOOLEAN : EditByAgent(n, t, r) \/ EditByOperator(n, t, r)
      PROVE  Follows
  <2>1. CASE EditorSaves(r) \/ MergedSkills(r)
    BY <2>1, WriteBackStep DEF EditorSaves, MergedSkills
  <2> QED BY <1>4, <2>1, RoleEditStep
<1>5. ASSUME NEW n \in Names,
             \/ ReadRole(n) \/ Establish(n)
             \/ \E m \in Names, r \in ForkReaches : ForkRole(m, n, r)
             \/ \E r \in DeleteReaches : DeleteRole(n, r)
      PROVE  Follows
  BY <1>5, ReadStep, EstablishStep, ForkRoleStep, DeleteRoleStep
<1>6. CASE UNCHANGED roleVars
  BY <1>6, RoleStutter
<1> QED BY <1>1, <1>2, <1>3, <1>4, <1>5, <1>6 DEF RoleNext

\* So the invariant holds always.
LEMMA RoleInductive == RoleSpec => []RoleIInv
<1>1. RoleIInv /\ [RoleNext]_roleVars => RoleIInv'
  BY RoleStep DEF Follows
<1> QED BY <1>1, RoleInitInv, PTL DEF RoleSpec

\* Every pin names a commit that the clone of its workspace holds or will hold when
\* it is cloned: over boots that advance the engine's branches, late clones, forks,
\* deletions and crashes between a commit and its pin (role-commit.ts, role-git.ts).
THEOREM PinsResolve == RoleSpec => []PinResolves
<1>1. RoleIInv => PinResolves
  BY DEF RoleIInv
<1> QED BY <1>1, RoleInductive, PTL

\* An edit that was acknowledged stays in the content that its role is pinned to,
\* until a commit is forced over it, a client writes back an older reading, or the
\* role is deleted (role-checkout.ts, role-edit-apply.ts, finalizeRoleCommit).
THEOREM AcknowledgedEditsStay == RoleSpec => []AckedEditsKept
<1>1. RoleIInv => AckedEditsKept
  BY DEF RoleIInv
<1> QED BY <1>1, RoleInductive, PTL

\* Where the scheduler has the triggers of exactly the roles whose pins declare
\* them, every step leaves it so, but for a commit forced over a newer one and one
\* that changes whether the role is persistent (finalizeRoleCommit's reload).
THEOREM SchedulerFollowsPins == RoleSpec => TriggersStayInStep
<1>1. RoleIInv /\ [RoleNext]_roleVars
        => [(\A n \in Names : inStep(n) /\ ~turned(n)) /\ (\A d \in Desks : ~forcedOver(d))
              => \A n \in Names : inStep(n)']_roleVars
  BY RoleStep DEF Follows, Calm
<1> QED BY <1>1, RoleInductive, PTL DEF RoleSpec, TriggersStayInStep

-----------------------------------------------------------------------------
(* The answers to asks (AskAnswers).                                       *)

\* The options of a question.
OptionsOf(q) == {q.options[k] : k \in DOMAIN q.options}

\* A panel has, for each question, clicks on its options and a text.
PanelFits(p, qs) ==
    /\ DOMAIN p.selected = DOMAIN qs
    /\ DOMAIN p.free = DOMAIN qs
    /\ \A i \in DOMAIN qs : /\ p.selected[i] \in Seq(OptionsOf(qs[i]))
                            /\ ~qs[i].multi => Len(p.selected[i]) <= 1
                            /\ p.free[i] \in Typed \cup {Blank}

\* A row of the asks: a command asks one question.
AskRow == {a \in [from: {"hook", "command"}, questions: AskUserQuestionInput \cup AgentAskRequest,
                  status: {"pending", "timed_out", "answered", "cancelled"}] :
             a.from = "command" => Len(a.questions) = 1}

\* The fields of a panel.
IsPanel(p) == p = [ask |-> p.ask, selected |-> p.selected, free |-> p.free, sending |-> p.sending]

\* The widget is mounted for an ask there is, and fits its questions.
PanelOK ==
    /\ IsPanel(panel)
    /\ panel.ask \in 0 .. Len(asks)
    /\ panel.ask # 0 => PanelFits(panel, asks[panel.ask].questions)

\* What the panel sends: a part for each question.
Parts(p, qs) == [i \in DOMAIN qs |-> buildPart(p, qs[i], i)]

\* What is on its way was made of the panel it was sent from, or is a bare text.
SentFits(s, qs) ==
    /\ s.meant.ask # 0 => PanelFits(s.meant, qs) /\ s.answer = encodePanelAnswer(Parts(s.meant, qs))
    /\ s.meant.ask = 0 => ~IsJson(s.answer)

\* Every answer on its way is of an ask there is, and fits its questions.
InflightOK ==
    \A s \in inflight :
       /\ s = [id |-> s.id, ask |-> s.ask, answer |-> s.answer, meant |-> s.meant, stage |-> s.stage]
       /\ s.ask \in DOMAIN asks
       /\ SentFits(s, asks[s.ask].questions)

\* What was read was read for an ask there is.
ToldOK == \A t \in told : t.ask \in DOMAIN asks

\* AnswerArrives speaks of what was read only. That it stays true rests on what is on
\* the way having been made of a panel that fits the ask it is sent to.
AnswerIInv == asks \in Seq(AskRow) /\ PanelOK /\ InflightOK /\ ToldOK /\ AnswerArrives

\* A panel's questions: one or more.
QuestionsForm(qs) == \E n \in Nat : n >= 1 /\ qs \in [1 .. n -> Question]

\* A sequence with something in it.
LEMMA NonEmptySeq == ASSUME NEW S, NEW s \in Seq(S), s # <<>>
                     PROVE  Len(s) \in Nat /\ Len(s) >= 1 /\ DOMAIN s = 1 .. Len(s)
OBVIOUS

\* The fields of an ask.
LEMMA AskForms ==
  ASSUME NEW a \in AskRow
  PROVE  /\ QuestionsForm(a.questions)
         /\ a.from \in {"hook", "command"}
         /\ a.from = "command" => Len(a.questions) = 1
         /\ a.status \in {"pending", "timed_out", "answered", "cancelled"}
         /\ a = [from |-> a.from, questions |-> a.questions, status |-> a.status]
<1>1. a.questions \in AskUserQuestionInput \/ a.questions \in AgentAskRequest
  BY DEF AskRow
<1>2. ASSUME a.questions \in AskUserQuestionInput PROVE QuestionsForm(a.questions)
  <2>1. PICK n \in 1 .. MaxPanel : a.questions \in [1 .. n -> Question]
    BY <1>2 DEF AskUserQuestionInput
  <2> QED BY <2>1 DEF QuestionsForm
<1>3. ASSUME a.questions \in AgentAskRequest PROVE QuestionsForm(a.questions)
  <2>1. 1 \in Nat /\ 1 >= 1 /\ a.questions \in [1 .. 1 -> Question]
    BY <1>3 DEF AgentAskRequest
  <2> QED BY <2>1 DEF QuestionsForm
<1>4. QuestionsForm(a.questions)
  BY <1>1, <1>2, <1>3
<1> QED BY <1>4 DEF AskRow

\* The fields of a question: its options are a list.
LEMMA QuestionForms ==
  ASSUME NEW qs, QuestionsForm(qs)
  PROVE  /\ qs \in Seq(Question)
         /\ Len(qs) \in Nat /\ Len(qs) >= 1
         /\ DOMAIN qs = 1 .. Len(qs)
         /\ \A i \in DOMAIN qs : qs[i] \in Question
<1>1. PICK n \in Nat : n >= 1 /\ qs \in [1 .. n -> Question]
  BY DEF QuestionsForm
<1>2. qs \in Seq(Question) /\ Len(qs) = n
  BY <1>1
<1> QED BY <1>1, <1>2

\* The parts of a panel that fits, encoded and decoded again, are the parts.
LEMMA PartsDecoded ==
  ASSUME NEW qs, QuestionsForm(qs), NEW p, p.ask # 0, PanelFits(p, qs), Plain(p)
  PROVE  decodePanelAnswer(encodePanelAnswer(Parts(p, qs)), Len(qs)) = Parts(p, qs)
<1> DEFINE ps == Parts(p, qs)
<1>1. Len(qs) \in Nat /\ Len(qs) >= 1 /\ DOMAIN qs = 1 .. Len(qs)
  BY QuestionForms
<1>2. DOMAIN ps = 1 .. Len(qs) /\ \A i \in 1 .. Len(qs) : ps[i] = buildPart(p, qs[i], i)
  BY <1>1 DEF Parts
<1>3. Len(ps) = Len(qs)
  <2>1. ps = [i \in 1 .. Len(qs) |-> ps[i]]
    BY <1>2 DEF Parts
  <2> HIDE DEF ps
  <2>2. Len([i \in 1 .. Len(qs) |-> ps[i]]) = Len(qs)
    BY <1>1
  <2> QED BY <2>1, <2>2
<1>4. /\ DOMAIN ps[1] = {"raw", "notes"}
      /\ ~IsEnvelope(ps[1].raw)
      /\ ps[1] = [raw |-> ps[1].raw, notes |-> ps[1].notes]
  <2>1. CASE p.selected[1] = <<>>
    <3>1. ps[1] = [raw |-> p.free[1], notes |-> Blank]
      BY <1>1, <1>2, <2>1 DEF buildPart
    <3>2. ~IsJson(p.free[1])
      BY <1>1, <2>1 DEF Plain, PanelFits
    <3> HIDE DEF ps
    <3> QED BY <3>1, <3>2 DEF IsJson
  <2>2. CASE p.selected[1] # <<>>
    <3>1. PICK r \in {List(p.selected[1]), Text(p.selected[1][1])} : ps[1] = [raw |-> r, notes |-> p.free[1]]
      BY <1>1, <1>2, <2>2 DEF buildPart
    <3>2. ~IsEnvelope(r)
      BY DEF IsEnvelope, List, Text
    <3> HIDE DEF ps
    <3> QED BY <3>1, <3>2
  <2> QED BY <2>1, <2>2
<1> HIDE DEF ps
<1>5. CASE Len(ps) = 1 /\ ps[1].notes = Blank
  <2>1. encodePanelAnswer(ps) = ps[1].raw
    BY <1>5 DEF encodePanelAnswer
  <2>2. decodePanelAnswer(ps[1].raw, 1) = <<[raw |-> ps[1].raw, notes |-> Blank]>>
    BY <1>4 DEF decodePanelAnswer
  <2>3. ps = <<ps[1]>>
    <3>1. ps = [i \in 1 .. Len(qs) |-> ps[i]]
      BY <1>2 DEF ps, Parts
    <3> QED BY <3>1, <1>3, <1>5
  <2> QED BY <2>1, <2>2, <2>3, <1>3, <1>4, <1>5 DEF ps
<1>6. CASE ~(Len(ps) = 1 /\ ps[1].notes = Blank)
  <2>1. encodePanelAnswer(ps) = Envelope(ps)
    BY <1>6 DEF encodePanelAnswer
  <2>2. IsEnvelope(Envelope(ps)) /\ Envelope(ps).parts = ps
    BY DEF IsEnvelope, Envelope
  <2>3. decodePanelAnswer(Envelope(ps), Len(qs)) = ps
    BY <2>2, <1>3 DEF decodePanelAnswer
  <2> QED BY <2>1, <2>3 DEF ps
<1> QED BY <1>5, <1>6

\* The labels of a part are what was chosen, in the order of the clicks.
LEMMA LabelsRead ==
  ASSUME NEW qs, QuestionsForm(qs), NEW p, p.ask # 0, PanelFits(p, qs), Plain(p),
         NEW i \in DOMAIN qs
  PROVE  /\ LabelsIn(Parts(p, qs)[i].raw) = Chosen(p, i)
         /\ parseAnswerLabels(Parts(p, qs)[i].raw, qs[i].multi) = Chosen(p, i)
         /\ Parts(p, qs)[i].notes = Note(p, i)
<1> DEFINE part == Parts(p, qs)[i]
           multi == qs[i].multi
           sel == p.selected[i]
<1>0. part = buildPart(p, qs[i], i)
  BY DEF Parts
<1>1. multi \in BOOLEAN
  BY QuestionForms DEF Question
<1>2. CASE sel = <<>>
  <2>1. part = [raw |-> p.free[i], notes |-> Blank]
    BY <1>0, <1>2 DEF buildPart
  <2>2. ~IsList(p.free[i])
    BY <1>2 DEF Plain, PanelFits, IsJson
  <2>3. Chosen(p, i) = <<p.free[i]>> /\ Note(p, i) = Blank
    BY <1>2 DEF Chosen, Note
  <2> HIDE DEF part, multi
  <2>4. LabelsIn(part.raw) = <<p.free[i]>>
    BY <2>1, <2>2 DEF LabelsIn
  <2>5. parseAnswerLabels(part.raw, multi) = <<p.free[i]>>
    BY <2>1, <2>4, <1>1 DEF parseAnswerLabels
  <2> QED BY <2>1, <2>3, <2>4, <2>5 DEF part, multi
<1>3. CASE sel # <<>> /\ multi
  <2>1. part = [raw |-> List(sel), notes |-> p.free[i]]
    BY <1>0, <1>3 DEF buildPart
  <2>2. Chosen(p, i) = [k \in DOMAIN sel |-> Text(sel[k])] /\ Note(p, i) = p.free[i]
    BY <1>3 DEF Chosen, Note
  <2>3. IsList(List(sel)) /\ List(sel).list = sel
    BY DEF IsList, List
  <2> HIDE DEF part, sel
  <2>4. LabelsIn(part.raw) = [k \in DOMAIN sel |-> Text(sel[k])]
    BY <2>1, <2>3 DEF LabelsIn
  <2>5. parseAnswerLabels(part.raw, multi) = LabelsIn(part.raw)
    BY <1>3 DEF parseAnswerLabels
  <2> QED BY <2>1, <2>2, <2>4, <2>5 DEF part, sel
<1>4. CASE sel # <<>> /\ ~multi
  <2>1. part = [raw |-> Text(sel[1]), notes |-> p.free[i]]
    BY <1>0, <1>4 DEF buildPart
  <2>2. Chosen(p, i) = [k \in DOMAIN sel |-> Text(sel[k])] /\ Note(p, i) = p.free[i]
    BY <1>4 DEF Chosen, Note
  <2>3. ~IsList(Text(sel[1]))
    BY DEF IsList, Text
  <2>4. sel # <<>>
    BY <1>4
  <2>9. sel \in Seq(OptionsOf(qs[i])) /\ Len(sel) <= 1
    BY <1>4 DEF PanelFits
  <2> HIDE DEF part, sel
  <2>10. Len(sel) \in Nat /\ Len(sel) >= 1 /\ DOMAIN sel = 1 .. Len(sel)
    BY <2>4, <2>9, NonEmptySeq
  <2>11. Len(sel) = 1
    BY <2>9, <2>10
  <2>5. DOMAIN sel = 1 .. 1
    BY <2>10, <2>11
  <2>6. [k \in DOMAIN sel |-> Text(sel[k])] = <<Text(sel[1])>>
    BY <2>5
  <2>7. LabelsIn(part.raw) = <<Text(sel[1])>>
    BY <2>1, <2>3 DEF LabelsIn
  <2>8. parseAnswerLabels(part.raw, multi) = <<Text(sel[1])>>
    BY <2>1, <1>4 DEF parseAnswerLabels
  <2> QED BY <2>1, <2>2, <2>6, <2>7, <2>8 DEF part, sel
<1> QED BY <1>1, <1>2, <1>3, <1>4

\* A label that is an option is found at its place.
LEMMA OptionFound ==
  ASSUME NEW options, NEW j \in DOMAIN options
  PROVE  options[option_index(Text(options[j]), options)] = options[j]
<1> DEFINE at == {k \in DOMAIN options : Text(options[k]) = Text(options[j])}
<1>1. at # {} /\ option_index(Text(options[j]), options) = CHOOSE k \in at : TRUE
  BY DEF option_index
<1>2. \A k \in at : options[k] = options[j]
  BY DEF Text
<1> HIDE DEF at
<1>3. option_index(Text(options[j]), options) \in at
  BY <1>1
<1> QED BY <1>2, <1>3

\* The hook's reader (formatAskUserQuestionReason) reads the parts of the panel.
LEMMA HookReads ==
  ASSUME NEW qs, QuestionsForm(qs), NEW p, p.ask # 0, PanelFits(p, qs), Plain(p),
         NEW t, t.by = "hook", t.meant = p,
         t.read = renderContext(qs, encodePanelAnswer(Parts(p, qs)))
  PROVE  ReadsRight(t, qs)
<1> DEFINE ps == Parts(p, qs)
<1>1. DOMAIN ps = DOMAIN qs
  BY DEF Parts
<1>2. renderContext(qs, encodePanelAnswer(ps)) =
        [i \in DOMAIN ps |-> [selections |-> parseSelections(ps[i].raw, qs[i]), notes |-> ps[i].notes]]
  BY PartsDecoded DEF renderContext
<1> SUFFICES ASSUME NEW i \in DOMAIN qs
             PROVE  /\ t.read[i].notes = Note(p, i)
                    /\ [k \in DOMAIN t.read[i].selections |-> t.read[i].selections[k].label] = Chosen(p, i)
                    /\ \A k \in DOMAIN p.selected[i] :
                          qs[i].options[t.read[i].selections[k].option_index] = p.selected[i][k]
  BY DEF ReadsRight
<1> DEFINE labels == Chosen(p, i)
           sel == p.selected[i]
           found == parseSelections(ps[i].raw, qs[i])
<1>3. t.read[i].selections = found /\ t.read[i].notes = ps[i].notes
  BY <1>1, <1>2
<1>4. ps[i].notes = Note(p, i) /\ parseAnswerLabels(ps[i].raw, qs[i].multi) = labels
  BY LabelsRead
<1>5. found = [k \in DOMAIN labels |-> [label |-> labels[k], option_index |-> option_index(labels[k], qs[i].options)]]
  BY <1>4 DEF parseSelections
<1>6. labels = [k \in DOMAIN labels |-> labels[k]]
  <2>1. CASE sel = <<>>
    <3>1. PICK x : labels = <<x>>
      BY <2>1 DEF Chosen
    <3> HIDE DEF labels
    <3> QED BY <3>1
  <2>2. CASE sel # <<>>
    <3>1. labels = [k \in DOMAIN sel |-> Text(sel[k])]
      BY <2>2 DEF Chosen
    <3> HIDE DEF labels
    <3> QED BY <3>1
  <2> QED BY <2>1, <2>2
<1>7. ASSUME NEW k \in DOMAIN sel
      PROVE  qs[i].options[found[k].option_index] = sel[k]
  <2>1. sel \in Seq(OptionsOf(qs[i]))
    BY DEF PanelFits
  <2>2. sel # <<>> /\ sel[k] \in OptionsOf(qs[i])
    BY <2>1
  <2>3. k \in DOMAIN labels /\ labels[k] = Text(sel[k])
    BY <2>2 DEF Chosen
  <2>4. PICK j \in DOMAIN qs[i].options : sel[k] = qs[i].options[j]
    BY <2>2 DEF OptionsOf
  <2> HIDE DEF labels, sel, found
  <2>5. found[k].option_index = option_index(Text(sel[k]), qs[i].options)
    BY <1>5, <2>3
  <2> QED BY <2>4, <2>5, OptionFound
<1> HIDE DEF labels, found, ps
<1>8. DOMAIN found = DOMAIN labels /\ \A k \in DOMAIN found : found[k].label = labels[k]
  BY <1>5
<1>9. [k \in DOMAIN found |-> found[k].label] = labels
  BY <1>6, <1>8
<1> QED BY <1>3, <1>4, <1>7, <1>9 DEF labels

\* So does the message that is injected in a session that no longer waits.
LEMMA MessageReads ==
  ASSUME NEW qs, QuestionsForm(qs), NEW p, p.ask # 0, PanelFits(p, qs), Plain(p),
         NEW t, t.by = "message", t.meant = p,
         t.read = formatLateAnswer(qs, encodePanelAnswer(Parts(p, qs)))
  PROVE  ReadsRight(t, qs)
<1> DEFINE ps == Parts(p, qs)
<1>1. DOMAIN ps = DOMAIN qs
  BY DEF Parts
<1>2. formatLateAnswer(qs, encodePanelAnswer(ps)) =
        [i \in DOMAIN ps |-> [choice |-> LabelsIn(ps[i].raw), notes |-> ps[i].notes]]
  BY PartsDecoded DEF formatLateAnswer
<1>3. ASSUME NEW i \in DOMAIN qs
      PROVE  t.read[i] = [choice |-> Chosen(p, i), notes |-> Note(p, i)]
  <2>1. LabelsIn(ps[i].raw) = Chosen(p, i) /\ ps[i].notes = Note(p, i)
    BY LabelsRead
  <2> HIDE DEF ps
  <2> QED BY <1>1, <1>2, <2>1 DEF ps
<1> QED BY <1>3 DEF ReadsRight

\* So does the command's reader, of its one question.
LEMMA CommandReads ==
  ASSUME NEW qs, QuestionsForm(qs), Len(qs) = 1, NEW p, p.ask # 0, PanelFits(p, qs), Plain(p),
         NEW t, t.by = "command", t.meant = p,
         t.read = encodePanelAnswer(Parts(p, qs))
  PROVE  ReadsRight(t, qs)
<1> DEFINE ps == Parts(p, qs)
<1>1. DOMAIN qs = 1 .. 1 /\ DOMAIN ps = 1 .. 1
  BY QuestionForms DEF Parts
<1>2. LabelsIn(ps[1].raw) = Chosen(p, 1) /\ ps[1].notes = Note(p, 1)
  BY <1>1, LabelsRead
<1>3. ASSUME Note(p, 1) = Blank
      PROVE  LabelsIn(t.read) = Chosen(p, 1)
  <2>1. Len(ps) = 1
    <3>1. ps = [i \in 1 .. 1 |-> ps[i]]
      BY <1>1 DEF Parts
    <3> HIDE DEF ps
    <3>2. Len([i \in 1 .. 1 |-> ps[i]]) = 1
      OBVIOUS
    <3> QED BY <3>1, <3>2
  <2>2. encodePanelAnswer(ps) = ps[1].raw
    BY <1>2, <1>3, <2>1 DEF encodePanelAnswer
  <2> QED BY <1>2, <2>2
<1> QED BY <1>3 DEF ReadsRight

\* Asks are never taken away, nor their questions changed.
AsksKept == /\ asks' \in Seq(AskRow)
            /\ \A k \in DOMAIN asks : k \in DOMAIN asks' /\ asks'[k].questions = asks[k].questions

\* The panel goes on fitting asks that are kept.
LEMMA SamePanel ==
  ASSUME PanelOK, asks \in Seq(AskRow), AsksKept, panel' = panel \/ \E x : panel' = [panel EXCEPT !.sending = x]
  PROVE  PanelOK'
<1>1. IsPanel(panel') /\ panel'.ask = panel.ask /\ panel'.selected = panel.selected /\ panel'.free = panel.free
  <2>1. CASE panel' = panel
    BY <2>1 DEF PanelOK, IsPanel
  <2>2. ASSUME NEW x, panel' = [panel EXCEPT !.sending = x]
        PROVE  IsPanel(panel') /\ panel'.ask = panel.ask /\ panel'.selected = panel.selected /\ panel'.free = panel.free
    BY <2>2 DEF PanelOK, IsPanel
  <2> QED BY <2>1, <2>2
<1>2. \A qs : PanelFits(panel, qs) => PanelFits(panel', qs)
  BY <1>1 DEF PanelFits
<1>3. DOMAIN asks = 1 .. Len(asks) /\ DOMAIN asks' = 1 .. Len(asks') /\ Len(asks) \in Nat /\ Len(asks') \in Nat
  BY DEF AsksKept
<1>4. ASSUME panel.ask # 0
      PROVE  panel.ask \in DOMAIN asks' /\ PanelFits(panel', asks'[panel.ask].questions)
  <2>1. panel.ask \in DOMAIN asks /\ PanelFits(panel, asks[panel.ask].questions)
    BY <1>3, <1>4 DEF PanelOK
  <2> QED BY <2>1, <1>2 DEF AsksKept
<1>5. panel'.ask \in 0 .. Len(asks')
  BY <1>1, <1>3, <1>4 DEF PanelOK
<1> QED BY <1>1, <1>4, <1>5 DEF PanelOK

\* So does what is on its way.
LEMMA SameInflight ==
  ASSUME InflightOK, AsksKept,
         \A s \in inflight' : \E r \in inflight :
            /\ s.ask = r.ask /\ s.answer = r.answer /\ s.meant = r.meant
            /\ s = [id |-> s.id, ask |-> s.ask, answer |-> s.answer, meant |-> s.meant, stage |-> s.stage]
  PROVE  InflightOK'
<1> SUFFICES ASSUME NEW s \in inflight'
             PROVE  /\ s = [id |-> s.id, ask |-> s.ask, answer |-> s.answer, meant |-> s.meant, stage |-> s.stage]
                    /\ s.ask \in DOMAIN asks'
                    /\ SentFits(s, asks'[s.ask].questions)
  BY DEF InflightOK
<1>1. PICK r \in inflight :
            /\ s.ask = r.ask /\ s.answer = r.answer /\ s.meant = r.meant
            /\ s = [id |-> s.id, ask |-> s.ask, answer |-> s.answer, meant |-> s.meant, stage |-> s.stage]
  OBVIOUS
<1>2. r.ask \in DOMAIN asks /\ SentFits(r, asks[r.ask].questions)
  BY DEF InflightOK
<1>3. \A qs : SentFits(r, qs) => SentFits(s, qs)
  BY <1>1 DEF SentFits
<1> QED BY <1>1, <1>2, <1>3 DEF AsksKept

\* What was read stays read, and what is read now is read right.
LEMMA ToldRight ==
  ASSUME ToldOK, AnswerArrives, AsksKept,
         told \subseteq told',
         \A t \in told' \ told : t.ask \in DOMAIN asks' /\ (Plain(t.meant) => ReadsRight(t, asks'[t.ask].questions)),
         \A a \in DOMAIN asks' : asks'[a].status = "answered" =>
            (a \in DOMAIN asks /\ asks[a].status = "answered") \/ \E t \in told' : t.ask = a
  PROVE  ToldOK' /\ AnswerArrives'
<1>1. ASSUME NEW t \in told'
      PROVE  t.ask \in DOMAIN asks' /\ (Plain(t.meant) => ReadsRight(t, asks'[t.ask].questions))
  <2>1. CASE t \in told
    <3>1. t.ask \in DOMAIN asks /\ (Plain(t.meant) => ReadsRight(t, asks[t.ask].questions))
      BY <2>1 DEF ToldOK, AnswerArrives
    <3> QED BY <3>1 DEF AsksKept
  <2>2. CASE t \notin told
    BY <2>2
  <2> QED BY <2>1, <2>2
<1>2. ASSUME NEW a \in DOMAIN asks', asks'[a].status = "answered"
      PROVE  \E t \in told' : t.ask = a
  BY <1>2 DEF AnswerArrives
<1> QED BY <1>1, <1>2 DEF ToldOK, AnswerArrives

\* Asks that do not change are kept.
LEMMA SameAsks == ASSUME asks \in Seq(AskRow), asks' = asks PROVE AsksKept
BY DEF AsksKept

\* An ask: the open ones are cancelled.
LEMMA AskedStep ==
  ASSUME AnswerIInv, NEW from, NEW qs, Asked(from, qs),
         [from |-> from, questions |-> qs, status |-> "pending"] \in AskRow
  PROVE  AnswerIInv'
<1> DEFINE shut == [k \in DOMAIN asks |-> IF asks[k].status = "pending"
                                          THEN [asks[k] EXCEPT !.status = "cancelled"]
                                          ELSE asks[k]]
           new == [from |-> from, questions |-> qs, status |-> "pending"]
<1>0. asks \in Seq(AskRow)
  BY DEF AnswerIInv
<1>1. ASSUME NEW k \in DOMAIN asks
      PROVE  /\ shut[k] \in AskRow
             /\ shut[k].questions = asks[k].questions
             /\ shut[k].status = "answered" => asks[k].status = "answered"
  <2>1. asks[k] \in AskRow
    BY <1>0
  <2> DEFINE a == asks[k]
  <2>2. CASE a.status = "pending"
    <3>1. shut[k] = [a EXCEPT !.status = "cancelled"]
      BY <2>2
    <3> HIDE DEF shut, a
    <3>2. a \in AskRow
      BY <2>1 DEF a
    <3> QED BY <3>1, <3>2 DEF AskRow, a
  <2>3. CASE a.status # "pending"
    BY <2>1, <2>3
  <2> QED BY <2>2, <2>3
<1>2. DOMAIN shut = 1 .. Len(asks) /\ Len(asks) \in Nat
  BY <1>0
<1>3. asks' = Append(shut, new) /\ UNCHANGED <<panel, inflight, told>>
  BY DEF Asked
<1>4. shut \in Seq(AskRow) /\ Len(shut) = Len(asks)
  <2>1. shut \in [1 .. Len(asks) -> AskRow]
    <3>1. shut = [k \in 1 .. Len(asks) |-> shut[k]]
      BY <1>2
    <3>2. \A k \in 1 .. Len(asks) : shut[k] \in AskRow
      BY <1>0, <1>1
    <3> HIDE DEF shut
    <3> QED BY <3>1, <3>2
  <2> HIDE DEF shut
  <2> QED BY <2>1, <1>2
<1> HIDE DEF shut
<1>5. new \in AskRow /\ new.status # "answered"
  OBVIOUS
<1> HIDE DEF new
<1>6. /\ asks' \in Seq(AskRow)
      /\ DOMAIN asks' = 1 .. Len(asks) + 1
      /\ \A k \in DOMAIN asks : asks'[k] = shut[k]
      /\ asks'[Len(asks) + 1] = new
  BY <1>0, <1>2, <1>3, <1>4, <1>5
<1>7. AsksKept
  BY <1>0, <1>1, <1>2, <1>6 DEF AsksKept
<1>8. PanelOK'
  BY <1>0, <1>3, <1>7, SamePanel DEF AnswerIInv
<1>9. InflightOK'
  <2>1. \A s \in inflight' : s \in inflight /\
           s = [id |-> s.id, ask |-> s.ask, answer |-> s.answer, meant |-> s.meant, stage |-> s.stage]
    BY <1>3 DEF AnswerIInv, InflightOK
  <2> QED BY <2>1, <1>7, SameInflight DEF AnswerIInv
<1>10. ToldOK' /\ AnswerArrives'
  <2>1. ASSUME NEW a \in DOMAIN asks', asks'[a].status = "answered"
        PROVE  a \in DOMAIN asks /\ asks[a].status = "answered"
    <3>1. a # Len(asks) + 1
      BY <2>1, <1>5, <1>6
    <3>2. a \in DOMAIN asks
      BY <3>1, <1>0, <1>2, <1>6
    <3> QED BY <3>2, <1>1, <1>6, <2>1
  <2> QED BY <2>1, <1>3, <1>7, ToldRight DEF AnswerIInv
<1> QED BY <1>6, <1>8, <1>9, <1>10 DEF AnswerIInv

\* A set of naturals within a bound has a greatest element.
LEMMA GreatestIn == ASSUME NEW n \in Nat, NEW S \in SUBSET (1 .. n), S # {}
                    PROVE  \E k \in S : \A j \in S : j <= k
<1> DEFINE R == OpToRel(<, Nat)
           T == {m \in Nat : \A j \in S : j <= m}
<1>1. \A x, y \in Nat : y < x => <<y, x>> \in R
  BY DEF OpToRel
<1>2. IsWellFoundedOn(R, Nat)
  BY NatLessThanWellFounded
<1>3. T \subseteq Nat /\ n \in T
  OBVIOUS
<1>4. \A m \in Nat : m \in T <=> \A j \in S : j <= m
  OBVIOUS
<1> HIDE DEF R, T
<1>5. PICK m \in T : \A y \in T : ~(<<y, m>> \in R)
  BY <1>2, <1>3, WFMin
<1>6. \A y \in T : ~(y < m)
  BY <1>1, <1>3, <1>5
<1>7. m \in S
  <2>1. m \in Nat /\ \A j \in S : j <= m
    BY <1>3, <1>4, <1>5
  <2>2. PICK j \in S : TRUE
    OBVIOUS
  <2>3. SUFFICES ASSUME m \notin S PROVE FALSE
    OBVIOUS
  <2>4. m - 1 \in Nat
    BY <2>1, <2>2
  <2>5. \A i \in S : i <= m - 1
    BY <2>1, <2>3
  <2> QED BY <1>4, <1>6, <2>1, <2>4, <2>5
<1> QED BY <1>3, <1>4, <1>5, <1>7

\* A widget that is mounted anew fits the question it is for.
LEMMA WidgetFits ==
  ASSUME asks \in Seq(AskRow), panel' = Widget(open_question), asks' = asks
  PROVE  PanelOK'
<1> DEFINE a == open_question
           waiting == {k \in DOMAIN asks : asks[k].status \in {"pending", "timed_out"}}
<1>1. DOMAIN asks = 1 .. Len(asks) /\ Len(asks) \in Nat
  OBVIOUS
<1>2. a \in 0 .. Len(asks)
  <2>1. CASE waiting = {}
    BY <1>1, <2>1 DEF open_question
  <2>2. CASE waiting # {}
    <3>1. waiting \in SUBSET (1 .. Len(asks))
      BY <1>1
    <3>2. a = CHOOSE k \in waiting : \A j \in waiting : j <= k
      BY <2>2 DEF open_question
    <3> HIDE DEF waiting, a
    <3>3. \E k \in waiting : \A j \in waiting : j <= k
      BY <1>1, <2>2, <3>1, GreatestIn
    <3>4. a \in waiting
      BY <3>2, <3>3
    <3> QED BY <1>1, <3>1, <3>4
  <2> QED BY <2>1, <2>2
<1> HIDE DEF a
<1>3. CASE a = 0
  <2>1. panel' = NoPanel
    BY <1>3 DEF Widget, a
  <2> QED BY <1>1, <2>1 DEF PanelOK, IsPanel, NoPanel
<1>4. CASE a # 0
  <2> DEFINE qs == asks[a].questions
  <2>1. panel' = [ask |-> a, selected |-> [i \in DOMAIN qs |-> <<>>],
                  free |-> [i \in DOMAIN qs |-> Blank], sending |-> 0]
    BY <1>4 DEF Widget, a
  <2>2. PanelFits(panel', qs)
    <3> HIDE DEF qs
    <3>1. DOMAIN panel'.selected = DOMAIN qs /\ DOMAIN panel'.free = DOMAIN qs
      BY <2>1
    <3>2. \A i \in DOMAIN qs : panel'.selected[i] = <<>> /\ panel'.free[i] = Blank
      BY <2>1
    <3>3. \A S : <<>> \in Seq(S) /\ Len(<<>>) <= 1
      OBVIOUS
    <3> QED BY <3>1, <3>2, <3>3 DEF PanelFits
  <2>3. panel'.ask = a /\ IsPanel(panel')
    BY <2>1 DEF IsPanel
  <2> HIDE DEF qs
  <2> QED BY <1>1, <1>2, <2>2, <2>3 DEF PanelOK, qs
<1> QED BY <1>3, <1>4

\* Steps that move nothing but the panel.
LEMMA PanelStep ==
  ASSUME AnswerIInv, UNCHANGED <<asks, inflight, told>>, PanelOK'
  PROVE  AnswerIInv'
BY DEF AnswerIInv, InflightOK, ToldOK, AnswerArrives

\* A poll mounts the widget of the newest pending ask, or keeps the one there is.
LEMMA PolledStep == ASSUME AnswerIInv, Polled PROVE AnswerIInv'
<1>1. asks \in Seq(AskRow) /\ PanelOK /\ UNCHANGED <<asks, inflight, told>>
  BY DEF AnswerIInv, Polled
<1>2. PanelOK'
  <2>1. CASE open_question = panel.ask
    BY <1>1, <2>1, SameAsks, SamePanel DEF Polled, Show
  <2>2. CASE open_question # panel.ask
    BY <1>1, <2>2, WidgetFits DEF Polled, Show
  <2> QED BY <2>1, <2>2
<1> QED BY <1>1, <1>2, PanelStep

\* A reload unmounts it.
LEMMA ReloadedStep == ASSUME AnswerIInv, Reloaded PROVE AnswerIInv'
BY WidgetFits, PanelStep DEF AnswerIInv, Reloaded

\* A click adds a label of the question's options, or takes one away.
LEMMA ToggleFits ==
  ASSUME asks \in Seq(AskRow), PanelOK, panel.ask # 0,
         NEW i \in DOMAIN Shown, NEW k \in DOMAIN Shown[i].options,
         toggle(i, Shown[i].options[k])
  PROVE  /\ PanelFits(panel', Shown)
         /\ IsPanel(panel') /\ panel'.ask = panel.ask
<1> DEFINE label == Shown[i].options[k]
           sel == panel.selected[i]
           on == {j \in DOMAIN sel : sel[j] = label}
           multi == Shown[i].multi
           S == OptionsOf(Shown[i])
           after == IF on = {} THEN IF multi THEN Append(sel, label) ELSE <<label>>
                    ELSE IF multi THEN RemoveAt(sel, CHOOSE j \in on : TRUE) ELSE <<>>
<1>1. PanelFits(panel, Shown) /\ IsPanel(panel)
  BY DEF PanelOK, Shown
<1>2. panel' = [panel EXCEPT !.selected[i] = after]
  BY DEF toggle
<1>3. sel \in Seq(S) /\ (~multi => Len(sel) <= 1) /\ label \in S
  BY <1>1 DEF PanelFits, OptionsOf
<1> HIDE DEF multi, S, label, sel
<1>4. after \in Seq(S) /\ (~multi => Len(after) <= 1)
  <2>1. CASE on = {} /\ multi
    <3>1. after = Append(sel, label)
      BY <2>1
    <3> QED BY <3>1, <1>3, <2>1
  <2>2. CASE on = {} /\ ~multi
    <3>1. after = <<label>>
      BY <2>2
    <3> HIDE DEF after
    <3> QED BY <3>1, <1>3
  <2>3. CASE on # {} /\ multi
    <3>1. PICK j \in DOMAIN sel : after = RemoveAt(sel, j)
      BY <2>3
    <3> HIDE DEF after
    <3> QED BY <3>1, <1>3, <2>3 DEF RemoveAt
  <2>4. CASE on # {} /\ ~multi
    <3>1. after = <<>>
      BY <2>4
    <3> HIDE DEF after
    <3> QED BY <3>1
  <2> QED BY <2>1, <2>2, <2>3, <2>4
<1> HIDE DEF on, after
<1> DEFINE qs == Shown
           p == panel'
<1>5. /\ IsPanel(p) /\ p.ask = panel.ask /\ p.free = panel.free
      /\ p.selected = [panel.selected EXCEPT ![i] = after]
  BY <1>1, <1>2 DEF IsPanel
<1>6. i \in DOMAIN qs /\ PanelFits(panel, qs)
  BY <1>1
<1>7. S = OptionsOf(qs[i]) /\ multi = qs[i].multi
  BY DEF S, multi
<1> HIDE DEF qs, p
<1>8. DOMAIN p.selected = DOMAIN qs /\ DOMAIN p.free = DOMAIN qs
  BY <1>5, <1>6 DEF PanelFits
<1>9. ASSUME NEW j \in DOMAIN qs
      PROVE  /\ p.selected[j] \in Seq(OptionsOf(qs[j]))
             /\ ~qs[j].multi => Len(p.selected[j]) <= 1
             /\ p.free[j] \in Typed \cup {Blank}
  <2>1. CASE j = i
    <3>1. p.selected[j] = after
      BY <1>5, <1>6, <2>1 DEF PanelFits
    <3>2. p.free[j] \in Typed \cup {Blank}
      BY <1>5, <1>6 DEF PanelFits
    <3> QED BY <3>1, <3>2, <1>4, <1>7, <2>1
  <2>2. CASE j # i
    <3>1. p.selected[j] = panel.selected[j]
      BY <1>5, <1>6, <2>2 DEF PanelFits
    <3> QED BY <3>1, <1>5, <1>6 DEF PanelFits
  <2> QED BY <2>1, <2>2
<1>10. PanelFits(p, qs)
  BY <1>8, <1>9 DEF PanelFits
<1> QED BY <1>5, <1>10 DEF p, qs

\* A click, or a text typed.
LEMMA TouchedStep == ASSUME AnswerIInv, Touched PROVE AnswerIInv'
<1>1. asks \in Seq(AskRow) /\ PanelOK /\ panel.ask # 0 /\ UNCHANGED <<asks, inflight, told>>
  BY DEF AnswerIInv, Touched
<1>2. PanelFits(panel', Shown) /\ IsPanel(panel') /\ panel'.ask = panel.ask
  <2>1. PICK i \in DOMAIN Shown :
          \/ \E k \in DOMAIN Shown[i].options : toggle(i, Shown[i].options[k])
          \/ \E str \in Typed : setFreeAt(i, str)
    BY DEF Touched
  <2>2. CASE \E k \in DOMAIN Shown[i].options : toggle(i, Shown[i].options[k])
    BY <1>1, <2>2, ToggleFits
  <2>3. CASE \E str \in Typed : setFreeAt(i, str)
    <3>1. PICK str \in Typed : panel' = [panel EXCEPT !.free[i] = str]
      BY <2>3 DEF setFreeAt
    <3>2. IsPanel(panel) /\ PanelFits(panel, Shown)
      BY <1>1 DEF PanelOK, Shown
    <3>3. /\ IsPanel(panel') /\ panel'.ask = panel.ask /\ panel'.selected = panel.selected
          /\ panel'.free = [panel.free EXCEPT ![i] = str]
      BY <3>1, <3>2 DEF IsPanel
    <3>4. /\ DOMAIN panel'.free = DOMAIN panel.free
          /\ \A j \in DOMAIN panel.free : panel'.free[j] \in {panel.free[j], str}
      BY <3>3
    <3> QED BY <3>2, <3>3, <3>4 DEF PanelFits
  <2> QED BY <2>1, <2>2, <2>3
<1>3. PanelOK'
  BY <1>1, <1>2 DEF PanelOK, Shown
<1> QED BY <1>1, <1>3, PanelStep

\* An answer that is sent is what the panel shows, or a bare text.
LEMMA SentStep ==
  ASSUME AnswerIInv, NEW a \in DOMAIN asks, NEW str, NEW meant, Sent(a, str, meant),
         meant.ask # 0 => PanelFits(meant, asks[a].questions)
                          /\ str = encodePanelAnswer(Parts(meant, asks[a].questions)),
         meant.ask = 0 => ~IsJson(str),
         panel' = panel \/ \E x : panel' = [panel EXCEPT !.sending = x]
  PROVE  AnswerIInv'
<1> DEFINE new == [id |-> submits', ask |-> a, answer |-> str, meant |-> meant, stage |-> "sent"]
<1>1. asks \in Seq(AskRow) /\ inflight' = inflight \cup {new} /\ asks' = asks /\ told' = told
  BY DEF Sent, AnswerIInv
<1>2. PanelOK'
  BY <1>1, SameAsks, SamePanel DEF AnswerIInv
<1>3. /\ new = [id |-> new.id, ask |-> new.ask, answer |-> new.answer, meant |-> new.meant, stage |-> new.stage]
      /\ new.ask \in DOMAIN asks
      /\ SentFits(new, asks[new.ask].questions)
  BY DEF SentFits
<1> HIDE DEF new
<1>4. InflightOK'
  BY <1>1, <1>3 DEF AnswerIInv, InflightOK
<1> QED BY <1>1, <1>2, <1>4 DEF AnswerIInv, ToldOK, AnswerArrives

\* The panel is submitted.
LEMMA SubmitStep == ASSUME AnswerIInv, submit PROVE AnswerIInv'
<1>1. asks \in Seq(AskRow) /\ PanelOK /\ panel.ask # 0
  BY DEF AnswerIInv, submit
<1>2. panel.ask \in DOMAIN asks /\ PanelFits(panel, asks[panel.ask].questions)
  BY <1>1 DEF PanelOK
<1>3. Sent(panel.ask, encodePanelAnswer(Parts(panel, asks[panel.ask].questions)), panel)
  BY DEF submit, Parts, Shown
<1>4. panel' = [panel EXCEPT !.sending = submits']
  BY DEF submit
<1> QED BY <1>1, <1>2, <1>3, <1>4, SentStep

\* Another window answers, with a text.
LEMMA ElsewhereStep == ASSUME AnswerIInv, AnsweredElsewhere PROVE AnswerIInv'
<1>1. PICK a \in DOMAIN asks, str \in {t \in Typed \ {Blank} : ~IsJson(t)} : Sent(a, str, NoPanel)
  BY DEF AnsweredElsewhere
<1>2. NoPanel.ask = 0 /\ panel' = panel /\ ~IsJson(str)
  BY DEF NoPanel, AnsweredElsewhere
<1> QED BY <1>1, <1>2, SentStep

\* The request is over; asks and what was told may have changed.
LEMMA DoneStep ==
  ASSUME AnswerIInv, AsksKept, NEW s \in inflight, Done(s), ToldOK' /\ AnswerArrives'
  PROVE  AnswerIInv'
<1>1. PanelOK'
  <2>1. panel' = panel \/ \E x : panel' = [panel EXCEPT !.sending = x]
    BY DEF Done
  <2> QED BY <2>1, SamePanel DEF AnswerIInv
<1>2. InflightOK'
  <2>1. \A r \in inflight' : r \in inflight /\
           r = [id |-> r.id, ask |-> r.ask, answer |-> r.answer, meant |-> r.meant, stage |-> r.stage]
    BY DEF Done, AnswerIInv, InflightOK
  <2> QED BY <2>1, SameInflight DEF AnswerIInv
<1> QED BY <1>1, <1>2 DEF AnswerIInv, AsksKept

\* A change of one ask's status keeps the asks.
LEMMA StatusStep ==
  ASSUME asks \in Seq(AskRow), NEW a \in DOMAIN asks, NEW x \in {asks[a].status, "answered"},
         asks' = [asks EXCEPT ![a].status = x]
  PROVE  /\ AsksKept
         /\ DOMAIN asks' = DOMAIN asks
         /\ \A b \in DOMAIN asks : b # a => asks'[b] = asks[b]
         /\ asks'[a].questions = asks[a].questions
         /\ asks'[a].status = x
<1> DEFINE row == [asks[a] EXCEPT !.status = x]
<1>1. asks[a] \in AskRow
  OBVIOUS
<1>2. row \in AskRow /\ row.questions = asks[a].questions /\ row.status = x
  <2>1. PICK r \in AskRow : r = asks[a]
    BY <1>1
  <2>2. row = [r EXCEPT !.status = x] /\ x \in {"pending", "timed_out", "answered", "cancelled"}
    BY <2>1 DEF AskRow
  <2> HIDE DEF row
  <2> QED BY <2>1, <2>2 DEF AskRow
<1>3. asks' = [asks EXCEPT ![a] = row]
  OBVIOUS
<1> HIDE DEF row
<1>4. asks' \in Seq(AskRow) /\ DOMAIN asks' = DOMAIN asks
  BY <1>2, <1>3
<1>5. asks'[a] = row /\ \A b \in DOMAIN asks : b # a => asks'[b] = asks[b]
  BY <1>3
<1> QED BY <1>2, <1>4, <1>5 DEF AsksKept

\* What a panel meant is what its reader reads.
LEMMA ReadRight ==
  ASSUME AnswerIInv, NEW s \in inflight, NEW by, NEW what,
         \/ by = "hook" /\ what = renderContext(asks[s.ask].questions, s.answer)
         \/ by = "message" /\ what = formatLateAnswer(asks[s.ask].questions, s.answer)
         \/ by = "command" /\ what = s.answer /\ asks[s.ask].from = "command",
         Plain(s.meant)
  PROVE  ReadsRight([ask |-> s.ask, by |-> by, read |-> what, meant |-> s.meant], asks[s.ask].questions)
<1> DEFINE qs == asks[s.ask].questions
           p == s.meant
           t == [ask |-> s.ask, by |-> by, read |-> what, meant |-> s.meant]
<1>1. s.ask \in DOMAIN asks /\ SentFits(s, qs) /\ asks[s.ask] \in AskRow
  BY DEF AnswerIInv, InflightOK
<1>2. QuestionsForm(qs) /\ (asks[s.ask].from = "command" => Len(qs) = 1)
  BY <1>1, AskForms
<1>3. p.ask # 0 /\ Plain(p)
  BY DEF Plain
<1>4. PanelFits(p, qs) /\ s.answer = encodePanelAnswer(Parts(p, qs))
  BY <1>1, <1>3 DEF SentFits
<1>5. t.by = by /\ t.read = what /\ t.meant = p
  OBVIOUS
<1> HIDE DEF qs, p, t
<1>6. ASSUME by = "hook" /\ what = renderContext(qs, s.answer) PROVE ReadsRight(t, qs)
  BY <1>2, <1>3, <1>4, <1>5, <1>6, HookReads
<1>7. ASSUME by = "message" /\ what = formatLateAnswer(qs, s.answer) PROVE ReadsRight(t, qs)
  BY <1>2, <1>3, <1>4, <1>5, <1>7, MessageReads
<1>8. ASSUME by = "command" /\ what = s.answer /\ asks[s.ask].from = "command" PROVE ReadsRight(t, qs)
  BY <1>2, <1>3, <1>4, <1>5, <1>8, CommandReads
<1>9. ReadsRight(t, qs)
  BY <1>6, <1>7, <1>8 DEF qs
<1> QED BY <1>9 DEF t, qs

\* The reader of an answer that is recorded.
LEMMA ReaderStep ==
  ASSUME AnswerIInv, NEW s \in inflight, NEW by, NEW what, Read(s, by, what), Done(s),
         \/ by = "hook" /\ what = renderContext(asks[s.ask].questions, s.answer)
         \/ by = "message" /\ what = formatLateAnswer(asks[s.ask].questions, s.answer)
         \/ by = "command" /\ what = s.answer /\ asks[s.ask].from = "command",
         NEW x \in {asks[s.ask].status, "answered"}, asks' = [asks EXCEPT ![s.ask].status = x]
  PROVE  AnswerIInv'
<1> DEFINE t == [ask |-> s.ask, by |-> by, read |-> what, meant |-> s.meant]
<1>1. s.ask \in DOMAIN asks /\ asks \in Seq(AskRow)
  BY DEF AnswerIInv, InflightOK
<1>2. /\ AsksKept /\ DOMAIN asks' = DOMAIN asks
      /\ \A b \in DOMAIN asks : b # s.ask => asks'[b] = asks[b]
      /\ asks'[s.ask].questions = asks[s.ask].questions
  BY <1>1, StatusStep
<1>3. Plain(s.meant) => ReadsRight(t, asks[s.ask].questions)
  BY ReadRight
<1>4. told' = told \cup {t} /\ t.ask = s.ask /\ t.meant = s.meant
  BY DEF Read
<1> HIDE DEF t
<1>5. ToldOK' /\ AnswerArrives'
  <2>1. \A u \in told' \ told : u.ask \in DOMAIN asks' /\ (Plain(u.meant) => ReadsRight(u, asks'[u.ask].questions))
    BY <1>1, <1>2, <1>3, <1>4
  <2>2. \A b \in DOMAIN asks' : asks'[b].status = "answered" =>
            (b \in DOMAIN asks /\ asks[b].status = "answered") \/ \E u \in told' : u.ask = b
    BY <1>2, <1>4
  <2> QED BY <2>1, <2>2, <1>2, <1>4, ToldRight DEF AnswerIInv
<1> QED BY <1>2, <1>5, DoneStep

\* The parts of an answer that is an envelope are a list.
LEMMA EnvelopeParts ==
  ASSUME NEW qs, QuestionsForm(qs), NEW p, PanelFits(p, qs),
         NEW str, str = encodePanelAnswer(Parts(p, qs)), IsEnvelope(str)
  PROVE  DOMAIN str.parts = 1 .. Len(str.parts)
<1> DEFINE ps == Parts(p, qs)
<1>1. DOMAIN qs = 1 .. Len(qs) /\ Len(qs) \in Nat /\ Len(qs) >= 1
  BY QuestionForms
<1>2. ps = [i \in 1 .. Len(qs) |-> buildPart(p, qs[i], i)]
  BY <1>1 DEF Parts
<1>3. CASE Len(ps) = 1 /\ ps[1].notes = Blank
  <2>1. str = ps[1].raw /\ ps[1] = buildPart(p, qs[1], 1)
    BY <1>1, <1>2, <1>3 DEF encodePanelAnswer
  <2>2. p.selected[1] = <<>>
    <3>1. SUFFICES ASSUME p.selected[1] # <<>> PROVE FALSE
      OBVIOUS
    <3>2. PICK r \in {List(p.selected[1]), Text(p.selected[1][1])} : ps[1] = [raw |-> r, notes |-> p.free[1]]
      BY <2>1, <3>1 DEF buildPart
    <3>3. ~IsEnvelope(r)
      BY DEF IsEnvelope, List, Text
    <3> HIDE DEF ps
    <3> QED BY <2>1, <3>2, <3>3
  <2>3. str = p.free[1]
    BY <2>1, <2>2 DEF buildPart
  <2>4. str \in Typed \/ str = Blank
    BY <1>1, <2>3 DEF PanelFits
  <2>5. ~IsEnvelope(Blank)
    BY DEF IsEnvelope, Blank, Text
  <2> QED BY <2>4, <2>5, AnswerTexts
<1>4. CASE ~(Len(ps) = 1 /\ ps[1].notes = Blank)
  <2>1. str = Envelope(ps)
    BY <1>4 DEF encodePanelAnswer
  <2>2. str.parts = ps
    BY <2>1 DEF Envelope
  <2>3. Len(ps) = Len(qs) /\ DOMAIN ps = 1 .. Len(qs)
    <3> HIDE DEF ps
    <3> QED BY <1>1, <1>2
  <2> QED BY <2>2, <2>3
<1> QED BY <1>3, <1>4

\* A recorded answer to a panel has a part at least, so the hook has something to say.
LEMMA RecordedStep == ASSUME AnswerIInv, NEW s \in inflight, Recorded(s) PROVE AnswerIInv'
<1>1. s.ask \in DOMAIN asks /\ asks \in Seq(AskRow) /\ asks[s.ask] \in AskRow
  BY DEF AnswerIInv, InflightOK
<1>2. Done(s) /\ asks' = [asks EXCEPT ![s.ask].status = "answered"] /\ covers(s)
  BY DEF Recorded
<1>3. CASE asks[s.ask].from = "hook"
  <2> DEFINE qs == asks[s.ask].questions
             parts == decodePanelAnswer(s.answer, Len(qs))
             context == renderContext(qs, s.answer)
  <2>1. parts # <<>>
    BY <1>2 DEF covers
  <2>2. context = [i \in DOMAIN parts |-> [selections |-> parseSelections(parts[i].raw, qs[i]),
                                           notes |-> parts[i].notes]]
    BY DEF renderContext
  <2>3. DOMAIN parts # {}
    <3>1. SentFits(s, qs) /\ QuestionsForm(qs)
      BY <1>1, AskForms DEF AnswerIInv, InflightOK
    <3>2. CASE IsEnvelope(s.answer) /\ Len(s.answer.parts) = Len(qs)
      <4>1. parts = s.answer.parts
        BY <3>2 DEF decodePanelAnswer
      <4>2. s.meant.ask # 0 /\ s.answer = encodePanelAnswer(Parts(s.meant, qs))
        BY <3>1, <3>2 DEF SentFits, IsJson
      <4>3. PICK p : p = s.meant /\ PanelFits(p, qs) /\ s.answer = encodePanelAnswer(Parts(p, qs))
        BY <3>1, <4>2 DEF SentFits
      <4>4. DOMAIN s.answer.parts = 1 .. Len(s.answer.parts)
        BY <3>1, <3>2, <4>3, EnvelopeParts
      <4>5. Len(qs) \in Nat /\ Len(qs) >= 1
        BY <3>1, QuestionForms
      <4>6. 1 \in DOMAIN s.answer.parts
        BY <3>2, <4>4, <4>5
      <4> QED BY <4>1, <4>6
    <3>3. CASE ~(IsEnvelope(s.answer) /\ Len(s.answer.parts) = Len(qs))
      <4>1. parts = <<[raw |-> s.answer, notes |-> Blank]>>
        BY <2>1, <3>3 DEF decodePanelAnswer
      <4> HIDE DEF parts
      <4> QED BY <4>1
    <3> QED BY <3>2, <3>3
  <2> HIDE DEF parts
  <2>4. context # <<>>
    BY <2>2, <2>3
  <2>5. Read(s, "hook", context)
    BY <1>3, <2>4 DEF Recorded
  <2> QED BY <1>1, <1>2, <2>5, ReaderStep
<1>4. CASE asks[s.ask].from # "hook"
  <2>1. asks[s.ask].from = "command"
    BY <1>1, <1>4, AskForms
  <2>2. Read(s, "command", s.answer)
    BY <1>4 DEF Recorded
  <2> QED BY <1>1, <1>2, <2>1, <2>2, ReaderStep
<1> QED BY <1>3, <1>4

\* The answer of an ask that timed out is injected as a message.
LEMMA InjectedStep == ASSUME AnswerIInv, NEW s \in inflight, Injected(s) PROVE AnswerIInv'
<1> DEFINE x == IF asks[s.ask].status = "timed_out" THEN "answered" ELSE asks[s.ask].status
<1>1. s.ask \in DOMAIN asks /\ asks \in Seq(AskRow)
  BY DEF AnswerIInv, InflightOK
<1>2. Done(s) /\ Read(s, "message", formatLateAnswer(asks[s.ask].questions, s.answer))
  BY DEF Injected
<1>3. asks' = [asks EXCEPT ![s.ask].status = x] /\ x \in {asks[s.ask].status, "answered"}
  BY <1>1 DEF Injected
<1> HIDE DEF x
<1> QED BY <1>2, <1>3, ReaderStep

\* The request ends, or goes on to the injection, without an answer.
LEMMA UnreadStep ==
  ASSUME AnswerIInv, NEW s \in inflight, AnswerRefused(s) \/ InjectionStarts(s) \/ InjectionFails(s)
  PROVE  AnswerIInv'
<1>1. asks \in Seq(AskRow) /\ asks' = asks /\ told' = told
  BY DEF AnswerIInv, AnswerRefused, InjectionStarts, InjectionFails
<1>2. AsksKept /\ ToldOK' /\ AnswerArrives'
  BY <1>1, SameAsks DEF AnswerIInv, ToldOK, AnswerArrives
<1>3. CASE AnswerRefused(s) \/ InjectionFails(s)
  BY <1>2, <1>3, DoneStep DEF AnswerRefused, InjectionFails
<1>4. CASE InjectionStarts(s)
  <2> DEFINE new == [s EXCEPT !.stage = "injecting"]
  <2>1. inflight' = (inflight \ {s}) \cup {new} /\ panel' = panel
    BY <1>4 DEF InjectionStarts
  <2>2. s = [id |-> s.id, ask |-> s.ask, answer |-> s.answer, meant |-> s.meant, stage |-> s.stage]
    BY DEF AnswerIInv, InflightOK
  <2>3. /\ new.ask = s.ask /\ new.answer = s.answer /\ new.meant = s.meant
        /\ new = [id |-> new.id, ask |-> new.ask, answer |-> new.answer, meant |-> new.meant, stage |-> new.stage]
    BY <2>2
  <2> HIDE DEF new
  <2>4. \A r \in inflight \ {s} :
           r = [id |-> r.id, ask |-> r.ask, answer |-> r.answer, meant |-> r.meant, stage |-> r.stage]
    BY DEF AnswerIInv, InflightOK
  <2>5. InflightOK'
    BY <1>2, <2>1, <2>3, <2>4, SameInflight DEF AnswerIInv
  <2>6. PanelOK'
    BY <1>1, <1>2, <2>1, SamePanel DEF AnswerIInv
  <2> QED BY <1>1, <1>2, <2>5, <2>6 DEF AnswerIInv
<1> QED BY <1>3, <1>4

\* There are no asks at first, or one that timed out before.
LEMMA AnswerStarts == ASSUME AnswerInit PROVE AnswerIInv
<1>1. asks \in Seq(AskRow) /\ \A k \in DOMAIN asks : asks[k].status = "timed_out"
  <2>1. CASE asks = <<>>
    BY <2>1
  <2>2. ASSUME NEW qs \in AskUserQuestionInput,
               asks = <<[from |-> "hook", questions |-> qs, status |-> "timed_out"]>>
        PROVE  asks \in Seq(AskRow) /\ \A k \in DOMAIN asks : asks[k].status = "timed_out"
    <3> DEFINE a == [from |-> "hook", questions |-> qs, status |-> "timed_out"]
    <3>1. a \in AskRow /\ a.status = "timed_out"
      BY DEF AskRow
    <3>2. asks = <<a>>
      BY <2>2
    <3> HIDE DEF a
    <3> QED BY <3>1, <3>2
  <2> QED BY <2>1, <2>2 DEF AnswerInit
<1>2. PanelOK
  BY <1>1 DEF AnswerInit, PanelOK, IsPanel, NoPanel
<1>3. InflightOK /\ ToldOK /\ AnswerArrives
  BY <1>1 DEF AnswerInit, InflightOK, ToldOK, AnswerArrives
<1> QED BY <1>1, <1>2, <1>3 DEF AnswerIInv

\* Every step keeps the invariant.
LEMMA AnswerKeeps == ASSUME AnswerIInv, [AnswerNext]_answerVars PROVE AnswerIInv'
<1>1. ASSUME NEW qs \in AskUserQuestionInput, Asked("hook", qs) PROVE AnswerIInv'
  <2>1. [from |-> "hook", questions |-> qs, status |-> "pending"] \in AskRow
    BY DEF AskRow
  <2> QED BY <1>1, <2>1, AskedStep
<1>2. ASSUME NEW qs \in AgentAskRequest, Asked("command", qs) PROVE AnswerIInv'
  <2>1. Len(qs) = 1
    BY DEF AgentAskRequest
  <2>2. [from |-> "command", questions |-> qs, status |-> "pending"] \in AskRow
    BY <2>1 DEF AskRow
  <2> QED BY <1>2, <2>2, AskedStep
<1>3. CASE UNCHANGED answerVars
  BY <1>3 DEF AnswerIInv, PanelOK, InflightOK, ToldOK, AnswerArrives, answerVars
<1> QED BY <1>1, <1>2, <1>3, PolledStep, ReloadedStep, TouchedStep, SubmitStep, ElsewhereStep,
           RecordedStep, InjectedStep, UnreadStep DEF AnswerNext

\* What the user chose in the widget (AskWidget.tsx, encodePanelAnswer) is what the
\* reader on the other side is told, whichever reads it: the hook, the command or
\* the message injected after a time-out, for every set of questions and options, and
\* every text that is not itself an envelope, however asks, polls, reloads and the
\* answers of two windows interleave; and no answer is recorded that nobody reads.
THEOREM AnswersAreReadAsMeant == AnswerSpec => []AnswerArrives
<1>1. AnswerInit => AnswerIInv
  BY AnswerStarts
<1>2. AnswerIInv /\ [AnswerNext]_answerVars => AnswerIInv'
  BY AnswerKeeps
<1>3. AnswerIInv => AnswerArrives
  BY DEF AnswerIInv
<1> QED BY <1>1, <1>2, <1>3, PTL DEF AnswerSpec

-----------------------------------------------------------------------------
(* The layouts of the browser's pages (Layout).                            *)

\* A list of anything.
IsSeq(s) == \E S : s \in Seq(S)

\* A pane of workspace w: whatever it shows was opened there.
PaneHome(pane, w) ==
    /\ pane = [id |-> pane.id, views |-> pane.views, active |-> pane.active]
    /\ IsSeq(pane.views)
    /\ \A k \in DOMAIN pane.views :
          /\ pane.views[k] = [what |-> pane.views[k].what, at |-> pane.views[k].at]
          /\ pane.views[k].at = w

\* The panes of a tree, or of the ring.
PanesHome(tree, w) == IsSeq(tree) /\ \A n \in DOMAIN tree : PaneHome(tree[n], w)

\* No two panes of a tree have one id.
Distinct(tree) == \A m, n \in DOMAIN tree : tree[m].id = tree[n].id => m = n

\* A tree of workspace w.
GoodTree(tree, w) == PanesHome(tree, w) /\ Distinct(tree)

\* What a drag was given at its start still names the tab it holds.
Grabs(d, tree) ==
    \E n \in DOMAIN tree : /\ tree[n].id = d.from
                           /\ d.index \in DOMAIN tree[n].views
                           /\ tree[n].views[d.index].what = d.held.what

\* Nothing is dragged, or a session of w is placed, or a tab is moved.
DragOK(d, tree, w) ==
    \/ d = NoDrag
    \/ d.kind = "insert" /\ d = [kind |-> d.kind, held |-> View(d.held.what, w)]
    \/ /\ d.kind = "move"
       /\ d = [kind |-> d.kind, from |-> d.from, index |-> d.index, held |-> d.held]
       /\ d.held = [what |-> d.held.what, at |-> d.held.at]
       /\ Grabs(d, tree)

\* The length and the places of a list.
LEMMA SeqForm ==
  ASSUME NEW s, IsSeq(s)
  PROVE  Len(s) \in Nat /\ DOMAIN s = 1 .. Len(s)
BY DEF IsSeq

\* The elements of a list and one more are elements of a set.
LEMMA SeqWith ==
  ASSUME NEW s, IsSeq(s), NEW x
  PROVE  \E S : s \in Seq(S) /\ x \in S
<1>1. PICK S : s \in Seq(S)
  BY DEF IsSeq
<1>2. s \in Seq(S \cup {x})
  BY <1>1
<1> QED BY <1>2

\* A function on the first naturals is a list.
LEMMA SeqMade ==
  ASSUME NEW n \in Nat, NEW s, s = [k \in 1 .. n |-> s[k]]
  PROVE  IsSeq(s) /\ Len(s) = n
<1> DEFINE S == {s[k] : k \in 1 .. n}
<1>1. s \in [1 .. n -> S]
  OBVIOUS
<1> HIDE DEF S
<1>2. s \in Seq(S) /\ Len(s) = n
  BY <1>1
<1> QED BY <1>2 DEF IsSeq

\* Two lists, one after the other.
LEMMA SeqConcat ==
  ASSUME NEW S, NEW a \in Seq(S), NEW b \in Seq(S)
  PROVE  /\ a \o b \in Seq(S)
         /\ Len(a \o b) = Len(a) + Len(b)
<1>1. a \o b \in Seq(S)
  OBVIOUS
<1>2. Len(a \o b) = Len(a) + Len(b)
  OBVIOUS
<1> QED BY <1>1, <1>2

\* InsertAt: what is before stays in its place, what is after moves by one.
LEMMA SeqInsert ==
  ASSUME NEW s, IsSeq(s), NEW i \in 1 .. Len(s) + 1, NEW x
  PROVE  /\ IsSeq(InsertAt(s, i, x))
         /\ DOMAIN InsertAt(s, i, x) = 1 .. Len(s) + 1
         /\ InsertAt(s, i, x)[i] = x
         /\ \A k \in 1 .. Len(s) + 1 : k < i => InsertAt(s, i, x)[k] = s[k]
         /\ \A k \in 1 .. Len(s) + 1 : k > i => InsertAt(s, i, x)[k] = s[k - 1]
<1>1. PICK S : s \in Seq(S) /\ x \in S
  BY SeqWith
<1>2. Len(s) \in Nat /\ DOMAIN s = 1 .. Len(s)
  BY <1>1
<1> DEFINE a == SubSeq(s, 1, i - 1)
           b == SubSeq(s, i, Len(s))
<1>3. a \in Seq(S) /\ Len(a) = i - 1 /\ \A k \in 1 .. i - 1 : a[k] = s[k]
  BY <1>1, <1>2
<1>4. b \in Seq(S) /\ Len(b) = Len(s) - i + 1 /\ \A k \in 1 .. Len(s) - i + 1 : b[k] = s[i + k - 1]
  BY <1>1, <1>2
<1>5. InsertAt(s, i, x) = (a \o <<x>>) \o b
  BY DEF InsertAt
<1> HIDE DEF a, b
<1> DEFINE c == a \o <<x>>
<1>6. c \in Seq(S) /\ Len(c) = i /\ c[i] = x /\ \A k \in 1 .. i - 1 : c[k] = s[k]
  BY <1>1, <1>2, <1>3
<1> HIDE DEF c
<1> DEFINE r == c \o b
<1>7. r \in Seq(S) /\ Len(r) = Len(s) + 1
  <2>1. r \in Seq(S) /\ Len(r) = Len(c) + Len(b)
    BY <1>4, <1>6, SeqConcat
  <2>2. Len(c) + Len(b) = Len(s) + 1
    BY <1>2, <1>4, <1>6
  <2> QED BY <2>1, <2>2
<1>8. /\ r[i] = x
      /\ \A k \in 1 .. Len(s) + 1 : k < i => r[k] = s[k]
      /\ \A k \in 1 .. Len(s) + 1 : k > i => r[k] = s[k - 1]
  <2>1. \A k \in 1 .. i : r[k] = c[k]
    BY <1>2, <1>4, <1>6
  <2>2. \A k \in i + 1 .. Len(s) + 1 : r[k] = b[k - i]
    BY <1>2, <1>4, <1>6
  <2>3. ASSUME NEW k \in i + 1 .. Len(s) + 1 PROVE b[k - i] = s[k - 1]
    <3>1. k - i \in 1 .. Len(s) - i + 1 /\ i + (k - i) - 1 = k - 1
      BY <1>2
    <3>2. b[k - i] = s[i + (k - i) - 1]
      BY <1>4, <3>1
    <3> QED BY <3>1, <3>2
  <2> HIDE DEF r
  <2> QED BY <2>1, <2>2, <2>3, <1>2, <1>6
<1>9. InsertAt(s, i, x) = r
  BY <1>5 DEF c
<1> HIDE DEF r
<1> QED BY <1>7, <1>8, <1>9 DEF IsSeq

\* RemoveAt: the list without the element at a place.
LEMMA SeqRemove ==
  ASSUME NEW s, IsSeq(s), NEW i \in 1 .. Len(s)
  PROVE  /\ IsSeq(RemoveAt(s, i))
         /\ DOMAIN RemoveAt(s, i) = 1 .. Len(s) - 1
         /\ \A k \in 1 .. Len(s) - 1 : RemoveAt(s, i)[k] = s[IF k < i THEN k ELSE k + 1]
<1>1. PICK S : s \in Seq(S)
  BY DEF IsSeq
<1>2. Len(s) \in Nat /\ DOMAIN s = 1 .. Len(s)
  BY <1>1
<1> DEFINE a == SubSeq(s, 1, i - 1)
           b == SubSeq(s, i + 1, Len(s))
<1>3. a \in Seq(S) /\ Len(a) = i - 1 /\ \A k \in 1 .. i - 1 : a[k] = s[k]
  BY <1>1, <1>2
<1>4. b \in Seq(S) /\ Len(b) = Len(s) - i /\ \A k \in 1 .. Len(s) - i : b[k] = s[i + k]
  <2>1. b \in Seq(S)
    BY <1>1, <1>2
  <2>2. b = [k \in 1 .. Len(s) - (i + 1) + 1 |-> s[k + (i + 1) - 1]]
    BY <1>1, <1>2
  <2>3. Len(s) - (i + 1) + 1 = Len(s) - i /\ Len(s) - i \in Nat
    BY <1>2
  <2>4. \A k \in 1 .. Len(s) - i : k + (i + 1) - 1 = i + k
    BY <1>2
  <2> HIDE DEF b
  <2> QED BY <2>1, <2>2, <2>3, <2>4
<1>5. RemoveAt(s, i) = a \o b
  BY DEF RemoveAt
<1> HIDE DEF a, b
<1> DEFINE r == a \o b
<1>6. r \in Seq(S) /\ Len(r) = Len(s) - 1
  <2>1. r \in Seq(S) /\ Len(r) = Len(a) + Len(b)
    BY <1>3, <1>4, SeqConcat
  <2>2. Len(a) + Len(b) = Len(s) - 1
    BY <1>2, <1>3, <1>4
  <2> QED BY <2>1, <2>2
<1>7. \A k \in 1 .. i - 1 : r[k] = a[k]
  BY <1>2, <1>3, <1>4
<1>8. \A k \in i .. Len(s) - 1 : r[k] = b[k - i + 1]
  BY <1>2, <1>3, <1>4
<1>9. \A k \in i .. Len(s) - 1 : b[k - i + 1] = s[k + 1]
  BY <1>2, <1>4
<1> HIDE DEF r
<1>10. \A k \in 1 .. Len(s) - 1 : r[k] = s[IF k < i THEN k ELSE k + 1]
  BY <1>2, <1>3, <1>7, <1>8, <1>9
<1> QED BY <1>5, <1>6, <1>10 DEF IsSeq, r

\* Append: every element stays in its place.
LEMMA SeqAppend ==
  ASSUME NEW s, IsSeq(s), NEW x
  PROVE  /\ IsSeq(Append(s, x))
         /\ DOMAIN Append(s, x) = 1 .. Len(s) + 1
         /\ Append(s, x)[Len(s) + 1] = x
         /\ \A k \in 1 .. Len(s) : Append(s, x)[k] = s[k]
<1>1. PICK S : s \in Seq(S) /\ x \in S
  BY SeqWith
<1> QED BY <1>1 DEF IsSeq

\* Of one more id than there are panes, one is free: the ids of newPaneId stay distinct.
LEMMA IdIsFree ==
  ASSUME NEW tree, IsSeq(tree)
  PROVE  findPane(tree, newPaneId(tree)) = {}
<1>0. Len(tree) \in Nat /\ DOMAIN tree = 1 .. Len(tree)
  BY SeqForm
<1> DEFINE N == Len(tree)
           I == 1 .. N + 1
           S == {n \in 1 .. N : tree[n].id \in I}
           f == [n \in S |-> tree[n].id]
<1>1. SUFFICES ASSUME \A k \in I : findPane(tree, k) # {} PROVE FALSE
  BY DEF newPaneId
<1>2. f \in Surjection(S, I)
  <2>1. f \in [S -> I]
    OBVIOUS
  <2>2. \A k \in I : \E n \in S : f[n] = k
    BY <1>0, <1>1 DEF findPane
  <2> HIDE DEF f, S, I
  <2> QED BY <2>1, <2>2 DEF Surjection
<1>3. IsFiniteSet(1 .. N) /\ Cardinality(1 .. N) = N
  <2>1. N \in Nat
    BY <1>0
  <2> HIDE DEF N
  <2>2. /\ IsFiniteSet(1 .. N)
        /\ Cardinality(1 .. N) = IF 1 > N THEN 0 ELSE N - 1 + 1
    BY <2>1, FS_Interval
  <2> QED BY <2>1, <2>2
<1>4. IsFiniteSet(S) /\ Cardinality(S) <= N
  BY <1>3, FS_Subset
<1>5. Cardinality(I) = N + 1
  BY <1>0, FS_Interval
<1> HIDE DEF f, S
<1>6. Cardinality(I) <= Cardinality(S)
  BY <1>2, <1>4, FS_Surjection
<1>7. Cardinality(S) \in Nat
  BY <1>4, FS_CardinalityType
<1> QED BY <1>0, <1>4, <1>5, <1>6, <1>7

\* A tab put in a pane.
LEMMA InsertHome ==
  ASSUME NEW w, NEW pane, PaneHome(pane, w), NEW k \in Nat, k >= 1, NEW x
  PROVE  /\ PaneHome(Insert(pane, k, View(x, w)), w)
         /\ Insert(pane, k, View(x, w)).id = pane.id
<1> DEFINE vs == pane.views
           v == View(x, w)
           i == Clamped(k, vs \o <<v>>)
           ws == InsertAt(vs, i, v)
<1>1. pane = [id |-> pane.id, views |-> vs, active |-> pane.active] /\ IsSeq(vs)
      /\ \A j \in DOMAIN vs : vs[j] = [what |-> vs[j].what, at |-> vs[j].at] /\ vs[j].at = w
  BY DEF PaneHome
<1>2. v = [what |-> v.what, at |-> v.at] /\ v.at = w
  BY DEF View
<1>3. Insert(pane, k, v) = [pane EXCEPT !.views = ws, !.active = i]
  BY DEF Insert
<1> HIDE DEF v, vs
<1>4. Len(vs \o <<v>>) = Len(vs) + 1 /\ Len(vs) \in Nat /\ DOMAIN vs = 1 .. Len(vs)
  <2>1. PICK S : vs \in Seq(S) /\ v \in S
    BY <1>1, SeqWith
  <2> QED BY <2>1
<1>5. i \in 1 .. Len(vs) + 1
  BY <1>4 DEF Clamped
<1> HIDE DEF i
<1>6. /\ IsSeq(ws) /\ DOMAIN ws = 1 .. Len(vs) + 1 /\ ws[i] = v
      /\ \A j \in 1 .. Len(vs) + 1 : j < i => ws[j] = vs[j]
      /\ \A j \in 1 .. Len(vs) + 1 : j > i => ws[j] = vs[j - 1]
  BY <1>1, <1>5, SeqInsert
<1> HIDE DEF ws
<1>7. ASSUME NEW j \in DOMAIN ws
      PROVE  ws[j] = [what |-> ws[j].what, at |-> ws[j].at] /\ ws[j].at = w
  <2>1. j \in 1 .. Len(vs) + 1
    BY <1>6
  <2>2. ws[j] = v \/ \E m \in DOMAIN vs : ws[j] = vs[m]
    <3>1. CASE j = i
      BY <3>1, <1>6
    <3>2. CASE j < i
      <4>1. j \in DOMAIN vs
        BY <3>2, <2>1, <1>4, <1>5
      <4> QED BY <4>1, <3>2, <2>1, <1>6
    <3>3. CASE j > i
      <4>1. j - 1 \in DOMAIN vs
        BY <3>3, <2>1, <1>4, <1>5
      <4> QED BY <4>1, <3>3, <2>1, <1>6
    <3> QED BY <3>1, <3>2, <3>3, <2>1, <1>5, <1>4
  <2> QED BY <2>2, <1>1, <1>2
<1> DEFINE new == Insert(pane, k, v)
<1>8. new = [id |-> pane.id, views |-> ws, active |-> i]
  BY <1>1, <1>3
<1> HIDE DEF new
<1>9. new.id = pane.id /\ new.views = ws /\ new = [id |-> new.id, views |-> new.views, active |-> new.active]
  BY <1>8
<1> QED BY <1>6, <1>7, <1>9 DEF PaneHome, new, v

\* A tab at the end: the tabs before it keep their places.
LEMMA AppendHome ==
  ASSUME NEW w, NEW pane, PaneHome(pane, w), NEW x
  PROVE  /\ PaneHome(Append1(pane, View(x, w)), w)
         /\ Append1(pane, View(x, w)).id = pane.id
         /\ \A k \in DOMAIN pane.views : /\ k \in DOMAIN Append1(pane, View(x, w)).views
                                         /\ Append1(pane, View(x, w)).views[k] = pane.views[k]
<1> DEFINE vs == pane.views
           v == View(x, w)
           n == Len(vs) + 1
<1>1. IsSeq(vs) /\ pane = [id |-> pane.id, views |-> vs, active |-> pane.active]
  BY DEF PaneHome
<1>2. Len(vs) \in Nat /\ DOMAIN vs = 1 .. Len(vs) /\ n \in Nat /\ n >= 1
  BY <1>1, SeqForm
<1>3. Clamped(n, vs \o <<v>>) = n
  <2> HIDE DEF v, vs
  <2>1. PICK S : vs \in Seq(S) /\ v \in S
    BY <1>1, SeqWith
  <2>2. Len(vs \o <<v>>) = Len(vs) + 1
    BY <2>1
  <2> QED BY <2>2, <1>2 DEF Clamped
<1>4. Append1(pane, v).views = InsertAt(vs, n, v)
  BY <1>1, <1>3 DEF Append1, Insert
<1>5. \A k \in DOMAIN vs : k \in DOMAIN InsertAt(vs, n, v) /\ InsertAt(vs, n, v)[k] = vs[k]
  <2> HIDE DEF v, vs
  <2>1. n \in 1 .. Len(vs) + 1
    BY <1>2
  <2>2. DOMAIN InsertAt(vs, n, v) = 1 .. Len(vs) + 1
    BY <2>1, <1>1, SeqInsert
  <2>3. \A k \in 1 .. Len(vs) + 1 : k < n => InsertAt(vs, n, v)[k] = vs[k]
    BY <2>1, <1>1, SeqInsert
  <2> QED BY <2>2, <2>3, <1>2
<1>6. PaneHome(Append1(pane, v), w) /\ Append1(pane, v).id = pane.id
  BY <1>2, InsertHome DEF Append1
<1> QED BY <1>4, <1>5, <1>6

\* A tab closed.
LEMMA CloseHome ==
  ASSUME NEW w, NEW pane, PaneHome(pane, w), NEW k \in DOMAIN pane.views
  PROVE  PaneHome(close_tab(pane, k), w) /\ close_tab(pane, k).id = pane.id
<1> DEFINE vs == pane.views
           left == RemoveAt(vs, k)
<1>1. pane = [id |-> pane.id, views |-> vs, active |-> pane.active] /\ IsSeq(vs)
      /\ \A j \in DOMAIN vs : vs[j] = [what |-> vs[j].what, at |-> vs[j].at] /\ vs[j].at = w
  BY DEF PaneHome
<1>2. PICK a : close_tab(pane, k) = [pane EXCEPT !.views = left, !.active = a]
  BY DEF close_tab
<1> HIDE DEF vs
<1>3. Len(vs) \in Nat /\ DOMAIN vs = 1 .. Len(vs) /\ k \in 1 .. Len(vs)
  BY <1>1, SeqForm DEF vs
<1>4. /\ IsSeq(left) /\ DOMAIN left = 1 .. Len(vs) - 1
      /\ \A j \in 1 .. Len(vs) - 1 : left[j] = vs[IF j < k THEN j ELSE j + 1]
  BY <1>1, <1>3, SeqRemove
<1> HIDE DEF left
<1>5. ASSUME NEW j \in DOMAIN left
      PROVE  left[j] = [what |-> left[j].what, at |-> left[j].at] /\ left[j].at = w
  <2>1. (IF j < k THEN j ELSE j + 1) \in DOMAIN vs
    BY <1>3, <1>4
  <2> QED BY <2>1, <1>1, <1>4
<1> DEFINE new == close_tab(pane, k)
<1>6. new = [id |-> pane.id, views |-> left, active |-> a]
  BY <1>1, <1>2
<1> HIDE DEF new
<1>7. new.id = pane.id /\ new.views = left /\ new = [id |-> new.id, views |-> new.views, active |-> new.active]
  BY <1>6
<1> QED BY <1>4, <1>5, <1>7 DEF PaneHome, new

\* A tab made active.
LEMMA ActiveHome ==
  ASSUME NEW w, NEW pane, PaneHome(pane, w), NEW a
  PROVE  /\ PaneHome([pane EXCEPT !.active = a], w)
         /\ [pane EXCEPT !.active = a].id = pane.id
         /\ [pane EXCEPT !.active = a].views = pane.views
<1> DEFINE new == [pane EXCEPT !.active = a]
<1>1. new = [id |-> pane.id, views |-> pane.views, active |-> a]
  BY DEF PaneHome
<1> HIDE DEF new
<1>2. new.id = pane.id /\ new.views = pane.views /\ new = [id |-> new.id, views |-> new.views, active |-> new.active]
  BY <1>1
<1> QED BY <1>2 DEF PaneHome, new

\* A pane with another id.
LEMMA IdHome ==
  ASSUME NEW w, NEW pane, PaneHome(pane, w), NEW a
  PROVE  PaneHome([pane EXCEPT !.id = a], w) /\ [pane EXCEPT !.id = a].id = a
<1> DEFINE new == [pane EXCEPT !.id = a]
<1>1. new = [id |-> a, views |-> pane.views, active |-> pane.active]
  BY DEF PaneHome
<1> HIDE DEF new
<1>2. new.id = a /\ new.views = pane.views /\ new = [id |-> new.id, views |-> new.views, active |-> new.active]
  BY <1>1
<1> QED BY <1>2 DEF PaneHome, new

\* A pane with one tab, or none.
LEMMA NewPaneHome ==
  ASSUME NEW w, NEW a, NEW x, NEW b
  PROVE  /\ PaneHome([id |-> a, views |-> <<>>, active |-> b], w)
         /\ PaneHome([id |-> a, views |-> <<View(x, w)>>, active |-> b], w)
<1>1. IsSeq(<<>>) /\ DOMAIN <<>> = {}
  BY DEF IsSeq
<1>2. PaneHome([id |-> a, views |-> <<>>, active |-> b], w)
  BY <1>1 DEF PaneHome
<1> DEFINE v == View(x, w)
<1>3. v = [what |-> v.what, at |-> v.at] /\ v.at = w
  BY DEF View
<1> HIDE DEF v
<1>4. <<v>> \in Seq({v})
  OBVIOUS
<1>5. DOMAIN <<v>> = {1} /\ <<v>>[1] = v
  OBVIOUS
<1> DEFINE vs == <<v>>
<1> HIDE DEF vs
<1>6. IsSeq(vs) /\ \A k \in DOMAIN vs : vs[k] = [what |-> vs[k].what, at |-> vs[k].at] /\ vs[k].at = w
  BY <1>3, <1>4, <1>5 DEF IsSeq, vs
<1>7. PaneHome([id |-> a, views |-> vs, active |-> b], w)
  BY <1>6 DEF PaneHome
<1> QED BY <1>2, <1>7 DEF v, vs

\* A tree whose panes keep their ids.
LEMMA TreeMapped ==
  ASSUME NEW w, NEW tree, GoodTree(tree, w), NEW new, new = [n \in DOMAIN tree |-> new[n]],
         \A n \in DOMAIN tree : new[n].id = tree[n].id /\ PaneHome(new[n], w)
  PROVE  GoodTree(new, w)
<1>1. Len(tree) \in Nat /\ DOMAIN tree = 1 .. Len(tree)
  BY SeqForm DEF GoodTree, PanesHome
<1>2. IsSeq(new) /\ DOMAIN new = DOMAIN tree
  BY <1>1, SeqMade
<1>3. Distinct(new)
  BY <1>2 DEF GoodTree, Distinct
<1> QED BY <1>2, <1>3 DEF GoodTree, PanesHome

\* A tree in which one pane changed.
LEMMA PaneChanged ==
  ASSUME NEW w, NEW tree, GoodTree(tree, w), NEW n, NEW pane,
         n \in DOMAIN tree => pane.id = tree[n].id /\ PaneHome(pane, w)
  PROVE  GoodTree([tree EXCEPT ![n] = pane], w)
<1> DEFINE new == [tree EXCEPT ![n] = pane]
<1>1. new = [m \in DOMAIN tree |-> new[m]]
  OBVIOUS
<1>2. \A m \in DOMAIN tree : new[m] = IF m = n THEN pane ELSE tree[m]
  OBVIOUS
<1> HIDE DEF new
<1>3. \A m \in DOMAIN tree : new[m].id = tree[m].id /\ PaneHome(new[m], w)
  BY <1>2 DEF GoodTree, PanesHome
<1>4. GoodTree(new, w)
  BY <1>1, <1>3, TreeMapped
<1> QED BY <1>4 DEF new

\* A pane with an id that is free, put at some place.
LEMMA PaneAdded ==
  ASSUME NEW w, NEW tree, GoodTree(tree, w), NEW pane, PaneHome(pane, w), pane.id = newPaneId(tree),
         NEW new, IsSeq(new), NEW i \in DOMAIN new, DOMAIN new = 1 .. Len(tree) + 1, new[i] = pane,
         \A k \in DOMAIN new : k < i => new[k] = tree[k],
         \A k \in DOMAIN new : k > i => new[k] = tree[k - 1]
  PROVE  GoodTree(new, w)
<1>1. Len(tree) \in Nat /\ DOMAIN tree = 1 .. Len(tree)
  BY SeqForm DEF GoodTree, PanesHome
<1> DEFINE old(k) == IF k < i THEN k ELSE k - 1
<1>2. \A k \in DOMAIN new : k # i => old(k) \in DOMAIN tree /\ new[k] = tree[old(k)]
  BY <1>1
<1>3. \A n \in DOMAIN tree : tree[n].id # pane.id
  BY IdIsFree DEF GoodTree, PanesHome, findPane
<1>4. \A k, m \in DOMAIN new : k # i /\ m # i /\ old(k) = old(m) => k = m
  BY <1>1
<1> HIDE DEF old
<1>5. Distinct(new)
  BY <1>2, <1>3, <1>4 DEF GoodTree, Distinct
<1>6. \A k \in DOMAIN new : PaneHome(new[k], w)
  BY <1>2 DEF GoodTree, PanesHome
<1> QED BY <1>5, <1>6 DEF GoodTree, PanesHome

\* A pane at the end of the tree.
LEMMA AppendPane ==
  ASSUME NEW w, NEW tree, GoodTree(tree, w), NEW pane, PaneHome(pane, w)
  PROVE  GoodTree(appendPane(tree, pane), w)
<1> DEFINE p == [pane EXCEPT !.id = newPaneId(tree)]
           new == Append(tree, p)
<1>1. PaneHome(p, w) /\ p.id = newPaneId(tree)
  BY IdHome
<1>2. IsSeq(tree) /\ Len(tree) \in Nat
  BY SeqForm DEF GoodTree, PanesHome
<1> HIDE DEF p
<1>3. /\ IsSeq(new) /\ DOMAIN new = 1 .. Len(tree) + 1 /\ new[Len(tree) + 1] = p
      /\ \A k \in 1 .. Len(tree) : new[k] = tree[k]
  BY <1>2, SeqAppend
<1> HIDE DEF new
<1>4. Len(tree) + 1 \in DOMAIN new
      /\ (\A k \in DOMAIN new : k < Len(tree) + 1 => new[k] = tree[k])
      /\ (\A k \in DOMAIN new : ~(k > Len(tree) + 1))
  BY <1>2, <1>3
<1>5. GoodTree(new, w)
  BY <1>1, <1>3, <1>4, PaneAdded
<1> QED BY <1>5 DEF appendPane, new, p

\* A pane beside another.
LEMMA SplitPane ==
  ASSUME NEW w, NEW tree, GoodTree(tree, w), NEW n \in DOMAIN tree, NEW before \in BOOLEAN, NEW x,
         NEW vs \in {<<>>, <<View(x, w)>>}
  PROVE  GoodTree(splitPane(tree, n, before, vs), w)
<1> DEFINE i == IF before THEN n ELSE n + 1
<1>1. PICK b : splitPane(tree, n, before, vs) = InsertAt(tree, i, [id |-> newPaneId(tree), views |-> vs, active |-> b])
  BY DEF splitPane
<1> DEFINE p == [id |-> newPaneId(tree), views |-> vs, active |-> b]
           new == InsertAt(tree, i, p)
<1>2. PaneHome(p, w) /\ p.id = newPaneId(tree)
  BY NewPaneHome
<1>3. IsSeq(tree) /\ Len(tree) \in Nat /\ DOMAIN tree = 1 .. Len(tree)
  BY SeqForm DEF GoodTree, PanesHome
<1>4. i \in 1 .. Len(tree) + 1
  BY <1>3
<1> HIDE DEF i, p
<1>5. /\ IsSeq(new) /\ DOMAIN new = 1 .. Len(tree) + 1 /\ new[i] = p
      /\ \A k \in 1 .. Len(tree) + 1 : k < i => new[k] = tree[k]
      /\ \A k \in 1 .. Len(tree) + 1 : k > i => new[k] = tree[k - 1]
  BY <1>3, <1>4, SeqInsert
<1> HIDE DEF new
<1>6. GoodTree(new, w)
  BY <1>2, <1>4, <1>5, PaneAdded
<1> QED BY <1>1, <1>6 DEF new, p

\* A pane closed.
LEMMA PanesLeft ==
  ASSUME NEW w, NEW tree, GoodTree(tree, w), NEW n \in DOMAIN tree
  PROVE  GoodTree(closePane(tree, n), w)
<1>1. CASE Len(tree) = 1
  BY <1>1 DEF closePane
<1>2. CASE Len(tree) # 1
  <2> DEFINE new == RemoveAt(tree, n)
             old(k) == IF k < n THEN k ELSE k + 1
  <2>1. IsSeq(tree) /\ Len(tree) \in Nat /\ DOMAIN tree = 1 .. Len(tree)
    BY SeqForm DEF GoodTree, PanesHome
  <2>2. IsSeq(new) /\ DOMAIN new = 1 .. Len(tree) - 1 /\ \A k \in 1 .. Len(tree) - 1 : new[k] = tree[old(k)]
    BY <2>1, SeqRemove
  <2> HIDE DEF new
  <2>3. \A k \in DOMAIN new : old(k) \in DOMAIN tree
    BY <2>1, <2>2
  <2>4. \A k, m \in DOMAIN new : old(k) = old(m) => k = m
    BY <2>1, <2>2
  <2> HIDE DEF old
  <2>5. GoodTree(new, w)
    BY <2>2, <2>3, <2>4 DEF GoodTree, PanesHome, Distinct
  <2> QED BY <1>2, <2>5 DEF closePane, new
<1> QED BY <1>1, <1>2

\* Panes that got tabs at their ends at most.
Grown(tree, new) ==
    /\ DOMAIN new = DOMAIN tree
    /\ \A n \in DOMAIN tree :
          /\ new[n].id = tree[n].id
          /\ \A k \in DOMAIN tree[n].views :
                k \in DOMAIN new[n].views /\ new[n].views[k] = tree[n].views[k]

\* In them, a drag still names the tab it holds.
LEMMA GrownGrabs ==
  ASSUME NEW tree, NEW new, Grown(tree, new), NEW d, Grabs(d, tree)
  PROVE  Grabs(d, new)
<1>1. PICK n \in DOMAIN tree : /\ tree[n].id = d.from
                               /\ d.index \in DOMAIN tree[n].views
                               /\ tree[n].views[d.index].what = d.held.what
  BY DEF Grabs
<1>2. n \in DOMAIN new /\ new[n].id = tree[n].id /\ d.index \in DOMAIN new[n].views
      /\ new[n].views[d.index] = tree[n].views[d.index]
  BY <1>1 DEF Grown
<1> QED BY <1>1, <1>2 DEF Grabs

\* Making a tab active is growing by nothing.
LEMMA ActiveChanged ==
  ASSUME NEW w, NEW tree, GoodTree(tree, w), NEW n, NEW a
  PROVE  GoodTree([tree EXCEPT ![n].active = a], w) /\ Grown(tree, [tree EXCEPT ![n].active = a])
<1> DEFINE pane == [tree[n] EXCEPT !.active = a]
           new == [tree EXCEPT ![n] = pane]
<1>1. n \in DOMAIN tree => pane.id = tree[n].id /\ pane.views = tree[n].views /\ PaneHome(pane, w)
  BY ActiveHome DEF GoodTree, PanesHome
<1> HIDE DEF pane
<1>2. GoodTree(new, w)
  BY <1>1, PaneChanged
<1>3. Grown(tree, new)
  BY <1>1 DEF Grown
<1> QED BY <1>2, <1>3 DEF pane

\* So is a tab at the end of a pane.
LEMMA TabAppended ==
  ASSUME NEW w, NEW tree, GoodTree(tree, w), NEW n, NEW x
  PROVE  /\ GoodTree([tree EXCEPT ![n] = Append1(@, View(x, w))], w)
         /\ Grown(tree, [tree EXCEPT ![n] = Append1(@, View(x, w))])
<1> DEFINE pane == Append1(tree[n], View(x, w))
           new == [tree EXCEPT ![n] = pane]
<1>1. n \in DOMAIN tree => /\ pane.id = tree[n].id /\ PaneHome(pane, w)
                           /\ \A k \in DOMAIN tree[n].views : k \in DOMAIN pane.views /\ pane.views[k] = tree[n].views[k]
  BY AppendHome DEF GoodTree, PanesHome
<1> HIDE DEF pane
<1>2. GoodTree(new, w)
  BY <1>1, PaneChanged
<1>3. Grown(tree, new)
  BY <1>1 DEF Grown
<1> QED BY <1>2, <1>3 DEF pane

\* A session's tab opened: openSessionTab moves nothing that is there.
LEMMA Opened ==
  ASSUME NEW w, NEW tree, GoodTree(tree, w), NEW s, NEW from
  PROVE  /\ GoodTree(openSessionTab(tree, View(s, w), from), w)
         /\ Grown(tree, openSessionTab(tree, View(s, w), from))
<1> DEFINE v == View(s, w)
           new == openSessionTab(tree, v, from)
           has == {n \in DOMAIN tree : \E k \in DOMAIN tree[n].views : tree[n].views[k].what = v.what}
<1>1. CASE has # {}
  <2>1. PICK n, a : new = [tree EXCEPT ![n].active = a]
    BY <1>1 DEF openSessionTab
  <2>2. GoodTree([tree EXCEPT ![n].active = a], w) /\ Grown(tree, [tree EXCEPT ![n].active = a])
    BY ActiveChanged
  <2> HIDE DEF new
  <2> QED BY <2>1, <2>2 DEF new
<1>2. CASE has = {}
  <2>1. PICK n : new = [tree EXCEPT ![n] = Append1(@, v)]
    BY <1>2 DEF openSessionTab
  <2>2. GoodTree([tree EXCEPT ![n] = Append1(@, v)], w) /\ Grown(tree, [tree EXCEPT ![n] = Append1(@, v)])
    BY TabAppended
  <2> HIDE DEF new
  <2> QED BY <2>1, <2>2 DEF new
<1> QED BY <1>1, <1>2

\* A deep link pinned.
LEMMA PinnedGood ==
  ASSUME NEW w, NEW tree, GoodTree(tree, w), NEW s
  PROVE  GoodTree(Pinned(tree, w, s), w) /\ Grown(tree, Pinned(tree, w, s))
<1>1. Grown(tree, tree)
  BY DEF Grown
<1> QED BY <1>1, Opened DEF Pinned

\* A tab focused after a call.
LEMMA FocusGood ==
  ASSUME NEW w, NEW tree, GoodTree(tree, w), NEW hit
  PROVE  GoodTree(focusView(tree, hit), w) /\ Grown(tree, focusView(tree, hit))
<1> DEFINE new == focusView(tree, hit)
<1>1. new = [n \in DOMAIN tree |-> new[n]]
  BY DEF focusView
<1>2. ASSUME NEW n \in DOMAIN tree
      PROVE  new[n].id = tree[n].id /\ new[n].views = tree[n].views /\ PaneHome(new[n], w)
  <2> DEFINE t == tree[n]
             f == [t EXCEPT !.active = hit[2]]
  <2>1. new[n] = t \/ new[n] = f
    BY DEF focusView
  <2>2. PaneHome(t, w)
    BY DEF GoodTree, PanesHome
  <2> HIDE DEF new, t
  <2>3. f.id = t.id /\ f.views = t.views /\ PaneHome(f, w)
    BY <2>2, ActiveHome
  <2> HIDE DEF f
  <2>4. new[n].id = t.id /\ new[n].views = t.views /\ PaneHome(new[n], w)
    BY <2>1, <2>2, <2>3
  <2> QED BY <2>4 DEF t
<1> HIDE DEF new
<1>3. GoodTree(new, w)
  BY <1>1, <1>2, TreeMapped
<1>4. Grown(tree, new)
  BY <1>1, <1>2 DEF Grown
<1> QED BY <1>3, <1>4 DEF new

\* A view renamed by events.
LEMMA SwappedView ==
  ASSUME NEW v, v = [what |-> v.what, at |-> v.at], NEW events
  PROVE  Swapped(v, events) = [what |-> Successor(v.what, events), at |-> v.at]
BY DEF Swapped

\* Events rename what tabs and drags hold alike.
LEMMA SwapGood ==
  ASSUME NEW w, NEW tree, GoodTree(tree, w), NEW events
  PROVE  /\ GoodTree(swapSessionTab(tree, events), w)
         /\ \A d, e : Grabs(d, tree) /\ e.from = d.from /\ e.index = d.index
                        /\ e.held.what = Successor(d.held.what, events)
                      => Grabs(e, swapSessionTab(tree, events))
<1> DEFINE new == swapSessionTab(tree, events)
<1>1. DOMAIN new = DOMAIN tree /\ new = [n \in DOMAIN tree |-> new[n]]
  BY DEF swapSessionTab
<1>2. ASSUME NEW n \in DOMAIN tree
      PROVE  /\ new[n].id = tree[n].id
             /\ DOMAIN new[n].views = DOMAIN tree[n].views
             /\ \A k \in DOMAIN tree[n].views : new[n].views[k].what = Successor(tree[n].views[k].what, events)
             /\ PaneHome(new[n], w)
  <2> DEFINE pane == tree[n]
             vs == [k \in DOMAIN pane.views |-> Swapped(pane.views[k], events)]
  <2>1. new[n] = [pane EXCEPT !.views = vs]
    BY DEF swapSessionTab
  <2>2. PaneHome(pane, w)
    BY DEF GoodTree, PanesHome
  <2> HIDE DEF pane, new
  <2>3. /\ pane = [id |-> pane.id, views |-> pane.views, active |-> pane.active]
        /\ IsSeq(pane.views)
        /\ \A k \in DOMAIN pane.views :
              pane.views[k] = [what |-> pane.views[k].what, at |-> pane.views[k].at] /\ pane.views[k].at = w
    BY <2>2 DEF PaneHome
  <2>4. DOMAIN vs = DOMAIN pane.views
    OBVIOUS
  <2>5. ASSUME NEW k \in DOMAIN pane.views
        PROVE  vs[k] = [what |-> Successor(pane.views[k].what, events), at |-> w]
    <3>1. vs[k] = Swapped(pane.views[k], events)
      OBVIOUS
    <3> HIDE DEF vs
    <3> DEFINE v == pane.views[k]
    <3>2. v = [what |-> v.what, at |-> v.at] /\ v.at = w /\ vs[k] = Swapped(v, events)
      BY <3>1, <2>3
    <3> HIDE DEF v
    <3>3. vs[k] = [what |-> Successor(v.what, events), at |-> w]
      BY <3>2, SwappedView
    <3> QED BY <3>3 DEF v
  <2>6. IsSeq(vs)
    <3>1. Len(pane.views) \in Nat /\ DOMAIN pane.views = 1 .. Len(pane.views)
      BY <2>3, SeqForm
    <3>2. vs = [k \in 1 .. Len(pane.views) |-> vs[k]]
      BY <3>1
    <3> HIDE DEF vs
    <3> QED BY <3>1, <3>2, SeqMade
  <2> HIDE DEF vs
  <2>7. new[n] = [id |-> pane.id, views |-> vs, active |-> pane.active]
    BY <2>1, <2>3
  <2>8. new[n].id = pane.id /\ new[n].views = vs
        /\ new[n] = [id |-> new[n].id, views |-> new[n].views, active |-> new[n].active]
    BY <2>7
  <2>9. \A k \in DOMAIN vs : vs[k] = [what |-> vs[k].what, at |-> vs[k].at] /\ vs[k].at = w
                            /\ vs[k].what = Successor(pane.views[k].what, events)
    <3> TAKE k \in DOMAIN vs
    <3> DEFINE x == Successor(pane.views[k].what, events)
    <3>1. vs[k] = [what |-> x, at |-> w]
      BY <2>4, <2>5
    <3> HIDE DEF x
    <3>2. vs[k] = [what |-> vs[k].what, at |-> vs[k].at] /\ vs[k].at = w /\ vs[k].what = x
      BY <3>1
    <3> QED BY <3>2 DEF x
  <2>10. PaneHome(new[n], w)
    BY <2>6, <2>8, <2>9 DEF PaneHome
  <2> QED BY <2>4, <2>8, <2>9, <2>10 DEF pane
<1> HIDE DEF new
<1>3. GoodTree(new, w)
  BY <1>1, <1>2, TreeMapped
<1>4. ASSUME NEW d, NEW e, Grabs(d, tree), e.from = d.from, e.index = d.index,
             e.held.what = Successor(d.held.what, events)
      PROVE  Grabs(e, new)
  <2>1. PICK n \in DOMAIN tree : /\ tree[n].id = d.from
                                 /\ d.index \in DOMAIN tree[n].views
                                 /\ tree[n].views[d.index].what = d.held.what
    BY <1>4 DEF Grabs
  <2>2. /\ n \in DOMAIN new /\ new[n].id = e.from /\ e.index \in DOMAIN new[n].views
        /\ new[n].views[e.index].what = Successor(tree[n].views[d.index].what, events)
    BY <1>1, <1>2, <1>4, <2>1
  <2> QED BY <1>4, <2>1, <2>2 DEF Grabs
<1> QED BY <1>3, <1>4 DEF new

\* The layout a workspace starts with.
LEMMA DefaultGood == ASSUME NEW w PROVE GoodTree(defaultLayout(w), w)
<1> DEFINE kinds == <<"sessions", "whiteboard", "spawn">>
           tree == defaultLayout(w)
<1>1. DOMAIN kinds = 1 .. 3
  OBVIOUS
<1>2. tree = [n \in 1 .. 3 |-> [id |-> n, views |-> <<View(kinds[n], w)>>, active |-> 1]]
  BY <1>1 DEF defaultLayout, Panes
<1> HIDE DEF kinds, tree
<1>3. DOMAIN tree = 1 .. 3 /\ tree = [n \in 1 .. 3 |-> tree[n]]
      /\ \A n \in 1 .. 3 : tree[n] = [id |-> n, views |-> <<View(kinds[n], w)>>, active |-> 1]
  BY <1>2
<1>4. IsSeq(tree)
  BY <1>3, SeqMade
<1>5. ASSUME NEW n \in DOMAIN tree PROVE PaneHome(tree[n], w) /\ tree[n].id = n
  <2>1. tree[n] = [id |-> n, views |-> <<View(kinds[n], w)>>, active |-> 1]
    BY <1>3
  <2>2. PaneHome([id |-> n, views |-> <<View(kinds[n], w)>>, active |-> 1], w)
    BY NewPaneHome
  <2> QED BY <2>1, <2>2
<1> QED BY <1>4, <1>5 DEF GoodTree, PanesHome, Distinct, tree

\* No layout.
LEMMA EmptyGood == ASSUME NEW w PROVE GoodTree(<<>>, w)
<1>1. IsSeq(<<>>) /\ DOMAIN <<>> = {}
  BY DEF IsSeq
<1> QED BY <1>1 DEF GoodTree, PanesHome, Distinct

\* The fields of a page.
IsPage(q) ==
    q = [space |-> q.space, link |-> q.link, tree |-> q.tree, drag |-> q.drag,
         listed |-> q.listed, call |-> q.call, cursor |-> q.cursor, polls |-> q.polls]

\* A call remembers the workspace it was made in.
CallOK(c) == c = <<>> \/ \E x : c = <<x>> /\ x.space \in Workspaces

\* A page shows a tree of its workspace, and its drag holds a tab of that tree.
PageOK(q) ==
    /\ IsPage(q)
    /\ q.space \in Workspaces
    /\ GoodTree(q.tree, q.space)
    /\ DragOK(q.drag, q.tree, q.space)
    /\ CallOK(q.call)

\* The pages.
PagesOK == DOMAIN page = Pages /\ \A p \in Pages : PageOK(page[p])

\* What the storage holds under a workspace's slug is of that workspace.
StoredOK == DOMAIN stored = Workspaces /\ \A w \in Workspaces : GoodTree(stored[w], w)

\* So is what was saved by name,
NamedOK == DOMAIN named = Workspaces /\ \A w \in Workspaces : GoodTree(named[w], w)

\* and what was closed and can be reopened.
RingOK == DOMAIN ring = Workspaces /\ \A w \in Workspaces : PanesHome(ring[w], w)

\* A page takes its tree from the storage when it is mounted, from the menu and from
\* the ring, so each of them has to be of its workspace; and a drag finds its pane
\* by its id, so no two panes may share one.
LayoutIInv == PagesOK /\ StoredOK /\ NamedOK /\ RingOK

\* What is mounted is what is stored, or the default.
LEMMA InitGood == ASSUME StoredOK, NEW w \in Workspaces PROVE GoodTree(init(w), w)
BY DefaultGood DEF init, StoredOK

\* A page that shows a good tree leaves good trees in the storage.
LEMMA ShowsStep ==
  ASSUME PagesOK, StoredOK, NEW p \in Pages, NEW q, PageOK(q), Shows(p, q)
  PROVE  PagesOK' /\ StoredOK'
<1>1. page' = [page EXCEPT ![p] = q] /\ q.space \in Workspaces /\ GoodTree(q.tree, q.space)
  BY DEF Shows, PageOK
<1>2. PagesOK'
  BY <1>1 DEF PagesOK
<1>3. PICK t \in {q.tree, stored[q.space]} : stored' = [stored EXCEPT ![q.space] = t]
  BY DEF Shows
<1>4. StoredOK'
  BY <1>1, <1>3 DEF StoredOK
<1> QED BY <1>2, <1>4

\* A page that got another tree, and drags nothing.
LEMMA TreeShown ==
  ASSUME NEW q, PageOK(q), NEW tree, GoodTree(tree, q.space),
         q.drag = NoDrag \/ Grown(q.tree, tree)
  PROVE  /\ PageOK([q EXCEPT !.tree = tree])
         /\ [q EXCEPT !.tree = tree].space = q.space
         /\ [q EXCEPT !.tree = tree].tree = tree
<1> DEFINE r == [q EXCEPT !.tree = tree]
<1>1. /\ IsPage(r) /\ r.space = q.space /\ r.tree = tree /\ r.drag = q.drag /\ r.call = q.call
  BY DEF PageOK, IsPage
<1> HIDE DEF r
<1>2. DragOK(q.drag, tree, q.space)
  BY GrownGrabs DEF PageOK, DragOK
<1>3. PageOK(r)
  BY <1>1, <1>2 DEF PageOK
<1> QED BY <1>1, <1>3 DEF r

\* A page mounted for a workspace.
LEMMA MountedGood ==
  ASSUME StoredOK, NEW q, PageOK(q), NEW w \in Workspaces
  PROVE  PageOK(Mounted(q, w)) /\ Mounted(q, w).space = w /\ Mounted(q, w).drag = NoDrag
<1> DEFINE r == Mounted(q, w)
           t == init(w)
<1>0. GoodTree(t, w)
  BY InitGood
<1> HIDE DEF t
<1>1. r = [q EXCEPT !.space = w, !.tree = t, !.drag = NoDrag, !.cursor = 0, !.polls = <<>>]
  BY DEF Mounted, t
<1> HIDE DEF r
<1>2. /\ IsPage(r) /\ r.space = w /\ r.tree = t /\ r.drag = NoDrag /\ r.call = q.call
  BY <1>1 DEF PageOK, IsPage
<1>3. PageOK(r)
  BY <1>0, <1>2 DEF PageOK, DragOK
<1> QED BY <1>2, <1>3 DEF r

\* The effect of a deep link.
LEMMA LinkedGood ==
  ASSUME NEW r, PageOK(r), NEW s, NEW q, q = [r EXCEPT !.link = s, !.tree = Pinned(@, r.space, s)]
  PROVE  PageOK(q)
<1> DEFINE t == Pinned(r.tree, r.space, s)
<1>1. GoodTree(t, r.space) /\ Grown(r.tree, t)
  BY PinnedGood DEF PageOK
<1>2. q = [r EXCEPT !.link = s, !.tree = t]
  OBVIOUS
<1> HIDE DEF t
<1>3. /\ IsPage(q) /\ q.space = r.space /\ q.tree = t /\ q.drag = r.drag /\ q.call = r.call
  BY <1>2 DEF PageOK, IsPage
<1>4. DragOK(r.drag, t, r.space)
  BY <1>1, GrownGrabs DEF PageOK, DragOK
<1> QED BY <1>1, <1>3, <1>4 DEF PageOK

\* A page sent to a workspace and a session.
LEMMA NavigateGood ==
  ASSUME StoredOK, NEW q, PageOK(q), NEW w \in Workspaces, NEW s
  PROVE  PageOK(navigate(q, w, s))
<1>1. CASE q.space = w /\ q.link = s
  BY <1>1 DEF navigate
<1>2. CASE ~(q.space = w /\ q.link = s)
  <2> DEFINE r == IF q.space = w THEN q ELSE Mounted(q, w)
             new == navigate(q, w, s)
  <2>1. new = [r EXCEPT !.link = s, !.tree = Pinned(@, w, s)]
    BY <1>2 DEF navigate
  <2>2. PageOK(r) /\ r.space = w
    BY MountedGood
  <2> HIDE DEF r, new
  <2>3. PageOK(new)
    BY <2>1, <2>2, LinkedGood
  <2> QED BY <2>3 DEF new
<1> QED BY <1>1, <1>2

\* A gesture gives the page another tree.
LEMMA DispatchedStep ==
  ASSUME LayoutIInv, NEW p \in Pages, page[p].drag = NoDrag, NEW tree, GoodTree(tree, page[p].space),
         Dispatched(p, tree)
  PROVE  PagesOK' /\ StoredOK'
<1> DEFINE q == [page[p] EXCEPT !.tree = tree]
<1>1. PageOK(q)
  BY TreeShown DEF LayoutIInv, PagesOK
<1>2. Shows(p, q)
  BY DEF Dispatched
<1> HIDE DEF q
<1> QED BY <1>1, <1>2, ShowsStep DEF LayoutIInv

\* The ring stays,
LEMMA RingKept == ASSUME RingOK, UNCHANGED ring PROVE RingOK'
BY DEF RingOK

\* and so do the saved layouts.
LEMMA NamedKept == ASSUME NamedOK, UNCHANGED named PROVE NamedOK'
BY DEF NamedOK

\* The ring takes the pane that was closed, and keeps the newest.
LEMMA CapturedGood ==
  ASSUME RingOK, NEW w \in Workspaces, NEW pane, PaneHome(pane, w), ring' = Captured(w, pane)
  PROVE  RingOK'
<1> DEFINE old == ring[w]
           all == <<pane>> \o old
           m == Clamped(RingSize, all)
           new == SubSeq(all, 1, m)
<1>1. ring' = [ring EXCEPT ![w] = new]
  BY DEF Captured
<1>2. IsSeq(old) /\ \A n \in DOMAIN old : PaneHome(old[n], w)
  BY DEF RingOK, PanesHome
<1> HIDE DEF old
<1>3. PICK S : old \in Seq(S) /\ pane \in S
  BY <1>2, SeqWith
<1>4. /\ all \in Seq(S) /\ Len(all) = Len(old) + 1 /\ Len(old) \in Nat /\ all[1] = pane
      /\ \A k \in 2 .. Len(all) : all[k] = old[k - 1]
  BY <1>3
<1> HIDE DEF all
<1>5. m \in Nat /\ m <= Len(all)
  BY <1>4, RingBound DEF Clamped
<1> HIDE DEF m
<1>6. new \in Seq(S) /\ Len(new) = m /\ \A k \in 1 .. m : new[k] = all[k]
  BY <1>4, <1>5
<1>7. \A k \in 2 .. Len(all) : k - 1 \in DOMAIN old
  BY <1>3, <1>4
<1>8. \A k \in 1 .. Len(all) : PaneHome(all[k], w)
  BY <1>2, <1>4, <1>7
<1> HIDE DEF new
<1>9. PanesHome(new, w)
  BY <1>4, <1>5, <1>6, <1>8 DEF PanesHome, IsSeq
<1> QED BY <1>1, <1>9 DEF RingOK

\* A page that is free drags nothing.
LEMMA FreePage ==
  ASSUME LayoutIInv, NEW p \in Pages, Free(p)
  PROVE  /\ page[p].drag = NoDrag /\ page[p].space \in Workspaces
         /\ GoodTree(page[p].tree, page[p].space)
         /\ \A n \in DOMAIN page[p].tree : PaneHome(page[p].tree[n], page[p].space)
BY DEF LayoutIInv, PagesOK, PageOK, Free, GoodTree, PanesHome

\* Gestures that give the page another tree, and leave the ring and the saved layouts.
LEMMA GestureStep ==
  ASSUME LayoutIInv, NEW p \in Pages, Free(p), NEW tree, GoodTree(tree, page[p].space),
         Dispatched(p, tree), UNCHANGED <<named, ring>>
  PROVE  LayoutIInv'
BY FreePage, DispatchedStep, NamedKept, RingKept DEF LayoutIInv

\* Those gestures: tabs, panes, the menu.
LEMMA TabStep ==
  ASSUME LayoutIInv, NEW p \in Pages,
         select_tab(p) \/ AddPane(p) \/ SplitButton(p) \/ QuickAdd(p) \/ onLoad(p) \/ onReopen(p)
           \/ onReopenKind(p) \/ onReset(p) \/ onSelect(p)
  PROVE  LayoutIInv'
<1> DEFINE tree == page[p].tree
           w == page[p].space
<1>1. Free(p) /\ UNCHANGED <<named, ring>>
  BY DEF select_tab, AddPane, SplitButton, QuickAdd, onLoad, onReopen, onReopenKind, onReset, onSelect
<1>2. GoodTree(tree, w) /\ w \in Workspaces /\ \A n \in DOMAIN tree : PaneHome(tree[n], w)
  BY <1>1, FreePage
<1>3. ASSUME NEW new, GoodTree(new, w), Dispatched(p, new) PROVE LayoutIInv'
  BY <1>1, <1>3, GestureStep
<1>4. CASE select_tab(p)
  <2>1. PICK n, k : Dispatched(p, [tree EXCEPT ![n].active = k])
    BY <1>4 DEF select_tab
  <2>2. GoodTree([tree EXCEPT ![n].active = k], w)
    BY <1>2, ActiveChanged
  <2> QED BY <2>1, <2>2, <1>3
<1>5. CASE AddPane(p)
  <2>1. PaneHome(emptyPane, w)
    BY NewPaneHome DEF emptyPane
  <2>2. GoodTree(appendPane(tree, emptyPane), w)
    BY <1>2, <2>1, AppendPane
  <2>3. Dispatched(p, appendPane(tree, emptyPane))
    BY <1>5 DEF AddPane
  <2> QED BY <2>2, <2>3, <1>3
<1>6. CASE SplitButton(p)
  <2>1. PICK n \in DOMAIN tree : Dispatched(p, splitPane(tree, n, FALSE, <<>>))
    BY <1>6 DEF SplitButton
  <2>2. GoodTree(splitPane(tree, n, FALSE, <<>>), w)
    BY <1>2, SplitPane
  <2> QED BY <2>1, <2>2, <1>3
<1>7. CASE QuickAdd(p)
  <2>1. PICK n, kind : Dispatched(p, [tree EXCEPT ![n] = Append1(@, View(kind, w))])
    BY <1>7 DEF QuickAdd
  <2>2. GoodTree([tree EXCEPT ![n] = Append1(@, View(kind, w))], w)
    BY <1>2, TabAppended
  <2> QED BY <2>1, <2>2, <1>3
<1>8. CASE onLoad(p)
  <2>1. GoodTree(named[w], w) /\ Dispatched(p, named[w])
    BY <1>2, <1>8 DEF onLoad, LayoutIInv, NamedOK
  <2> QED BY <2>1, <1>3
<1>9. CASE onReopen(p)
  <2>1. PICK pane \in ToSet(ring[w]) : Dispatched(p, appendPane(tree, pane))
    BY <1>9 DEF onReopen
  <2>2. PaneHome(pane, w)
    BY <1>2, <2>1 DEF LayoutIInv, RingOK, PanesHome, ToSet
  <2>3. GoodTree(appendPane(tree, pane), w)
    BY <1>2, <2>2, AppendPane
  <2> QED BY <2>1, <2>3, <1>3
<1>10. CASE onReopenKind(p)
  <2>1. PICK kind : Dispatched(p, appendPane(tree, Append1(emptyPane, View(kind, w))))
    BY <1>10 DEF onReopenKind
  <2>2. PaneHome(emptyPane, w)
    BY NewPaneHome DEF emptyPane
  <2>3. PaneHome(Append1(emptyPane, View(kind, w)), w)
    BY <2>2, AppendHome
  <2>4. GoodTree(appendPane(tree, Append1(emptyPane, View(kind, w))), w)
    BY <1>2, <2>3, AppendPane
  <2> QED BY <2>1, <2>4, <1>3
<1>11. CASE onReset(p)
  BY <1>3, <1>11, DefaultGood DEF onReset
<1>12. CASE onSelect(p)
  <2>1. PICK n, s : Dispatched(p, openSessionTab(tree, View(s, w), n))
    BY <1>12 DEF onSelect
  <2>2. GoodTree(openSessionTab(tree, View(s, w), n), w)
    BY <1>2, Opened
  <2> QED BY <2>1, <2>2, <1>3
<1> QED BY <1>4, <1>5, <1>6, <1>7, <1>8, <1>9, <1>10, <1>11, <1>12

\* A tab or a pane closed may go to the ring.
LEMMA CloseStep ==
  ASSUME LayoutIInv, NEW p \in Pages, CloseTab(p) \/ ClosePane(p)
  PROVE  LayoutIInv'
<1> DEFINE tree == page[p].tree
           w == page[p].space
<1>1. Free(p) /\ UNCHANGED named
  BY DEF CloseTab, ClosePane
<1>2. GoodTree(tree, w) /\ w \in Workspaces /\ \A n \in DOMAIN tree : PaneHome(tree[n], w)
  BY <1>1, FreePage
<1>3. ASSUME NEW n \in DOMAIN tree, ring' = ring \/ ring' = Captured(w, tree[n]) PROVE RingOK'
  BY <1>2, <1>3, RingKept, CapturedGood DEF LayoutIInv
<1>4. ASSUME NEW new, GoodTree(new, w), Dispatched(p, new), RingOK' PROVE LayoutIInv'
  BY <1>1, <1>4, FreePage, DispatchedStep, NamedKept DEF LayoutIInv
<1>5. CASE CloseTab(p)
  <2>0. PICK n \in DOMAIN tree : \E k \in DOMAIN tree[n].views :
           /\ Dispatched(p, [tree EXCEPT ![n] = close_tab(@, k)])
           /\ ring' = ring \/ ring' = Captured(w, tree[n])
    BY <1>5 DEF CloseTab
  <2>1. PICK k \in DOMAIN tree[n].views :
           /\ Dispatched(p, [tree EXCEPT ![n] = close_tab(@, k)])
           /\ ring' = ring \/ ring' = Captured(w, tree[n])
    BY <2>0
  <2> DEFINE pane == close_tab(tree[n], k)
             new == [tree EXCEPT ![n] = pane]
  <2>2. PaneHome(pane, w) /\ pane.id = tree[n].id
    BY <1>2, CloseHome
  <2>3. Dispatched(p, new)
    BY <2>1
  <2>4. RingOK'
    BY <1>3, <2>1
  <2> HIDE DEF pane
  <2>5. GoodTree(new, w)
    BY <1>2, <2>2, PaneChanged
  <2> HIDE DEF new
  <2> QED BY <1>4, <2>3, <2>4, <2>5
<1>6. CASE ClosePane(p)
  <2>1. PICK n \in DOMAIN tree : /\ Dispatched(p, closePane(tree, n))
                                 /\ ring' = ring \/ ring' = Captured(w, tree[n])
    BY <1>6 DEF ClosePane
  <2>2. GoodTree(closePane(tree, n), w)
    BY <1>2, PanesLeft
  <2>3. RingOK'
    BY <1>3, <2>1
  <2> QED BY <1>4, <2>1, <2>2, <2>3
<1> QED BY <1>5, <1>6

\* A layout saved by name.
LEMMA SaveStep == ASSUME LayoutIInv, NEW p \in Pages, onSave(p) PROVE LayoutIInv'
<1>1. GoodTree(page[p].tree, page[p].space) /\ UNCHANGED <<page, stored, ring>>
      /\ named' = [named EXCEPT ![page[p].space] = page[p].tree]
  BY DEF onSave, LayoutIInv, PagesOK, PageOK
<1>2. NamedOK'
  BY <1>1 DEF LayoutIInv, NamedOK
<1> QED BY <1>1, <1>2 DEF LayoutIInv, PagesOK, StoredOK, RingOK

\* Only page p changes, and nothing is written to the storage.
LEMMA PageStep ==
  ASSUME LayoutIInv, NEW p \in Pages, NEW q, PageOK(q), page' = [page EXCEPT ![p] = q],
         UNCHANGED <<stored, named, ring>>
  PROVE  LayoutIInv'
<1>1. PagesOK'
  BY DEF LayoutIInv, PagesOK
<1> QED BY <1>1, NamedKept, RingKept DEF LayoutIInv, StoredOK

\* The page shows something else, and the menu's entries stay.
LEMMA ShownStep ==
  ASSUME LayoutIInv, NEW p \in Pages, NEW q, PageOK(q), Shows(p, q), UNCHANGED <<named, ring>>
  PROVE  LayoutIInv'
BY ShowsStep, NamedKept, RingKept DEF LayoutIInv

\* A page with another drag.
LEMMA DragChanged ==
  ASSUME NEW q, PageOK(q), NEW d, DragOK(d, q.tree, q.space)
  PROVE  PageOK([q EXCEPT !.drag = d])
<1> DEFINE r == [q EXCEPT !.drag = d]
<1>1. IsPage(r) /\ r.space = q.space /\ r.tree = q.tree /\ r.drag = d /\ r.call = q.call
  BY DEF PageOK, IsPage
<1> HIDE DEF r
<1>2. PageOK(r)
  BY <1>1 DEF PageOK
<1> QED BY <1>2 DEF r

\* What is grabbed is where the button went down.
LEMMA DragStartStep == ASSUME LayoutIInv, NEW p \in Pages, OnDragStart(p) PROVE LayoutIInv'
<1> DEFINE q == page[p]
           tree == q.tree
<1>1. PageOK(q)
  BY DEF LayoutIInv, PagesOK
<1>2. PICK n \in DOMAIN tree : \E k \in DOMAIN tree[n].views :
         page' = [page EXCEPT ![p].drag = [kind |-> "move", from |-> tree[n].id, index |-> k,
                                           held |-> tree[n].views[k]]]
  BY DEF OnDragStart
<1>3. PICK k \in DOMAIN tree[n].views :
         page' = [page EXCEPT ![p].drag = [kind |-> "move", from |-> tree[n].id, index |-> k,
                                           held |-> tree[n].views[k]]]
  BY <1>2
<1> DEFINE v == tree[n].views[k]
           d == [kind |-> "move", from |-> tree[n].id, index |-> k, held |-> v]
<1>4. v = [what |-> v.what, at |-> v.at]
  BY <1>1 DEF PageOK, GoodTree, PanesHome, PaneHome
<1>5. Grabs(d, tree)
  BY DEF Grabs
<1>6. page' = [page EXCEPT ![p] = [q EXCEPT !.drag = d]]
  BY <1>3
<1> HIDE DEF v
<1>7. DragOK(d, tree, q.space)
  BY <1>4, <1>5 DEF DragOK
<1> HIDE DEF d, q
<1>8. PageOK([q EXCEPT !.drag = d])
  BY <1>1, <1>7, DragChanged
<1> QED BY <1>6, <1>8, PageStep DEF OnDragStart

\* A session of the list is picked up to be placed.
LEMMA InsertStartStep == ASSUME LayoutIInv, NEW p \in Pages, openInPane(p) PROVE LayoutIInv'
<1> DEFINE q == page[p]
<1>1. PageOK(q)
  BY DEF LayoutIInv, PagesOK
<1>2. PICK s : page' = [page EXCEPT ![p].drag = [kind |-> "insert", held |-> View(s, q.space)]]
  BY DEF openInPane
<1> DEFINE v == View(s, q.space)
           d == [kind |-> "insert", held |-> v]
<1>3. v = View(v.what, q.space)
  BY DEF View
<1>4. page' = [page EXCEPT ![p] = [q EXCEPT !.drag = d]]
  BY <1>2
<1> HIDE DEF v
<1>5. DragOK(d, q.tree, q.space)
  BY <1>3 DEF DragOK
<1> HIDE DEF d, q
<1>6. PageOK([q EXCEPT !.drag = d])
  BY <1>1, <1>5, DragChanged
<1> QED BY <1>4, <1>6, PageStep DEF openInPane

\* What is carried was opened here, and the panes without it are good.
LEMMA LiftedGood ==
  ASSUME NEW q, PageOK(q), q.drag # NoDrag
  PROVE  /\ GoodTree(Lifted(q), q.space)
         /\ DOMAIN Lifted(q) = DOMAIN q.tree
         /\ \E x : Carried(q) = View(x, q.space)
<1> DEFINE tree == q.tree
           d == q.drag
           w == q.space
<1>1. GoodTree(tree, w) /\ DragOK(d, tree, w) /\ d # NoDrag
  BY DEF PageOK
<1>2. CASE d.kind = "insert"
  <2>1. Lifted(q) = tree /\ Carried(q) = d.held
    BY <1>2 DEF Lifted, Carried
  <2>2. d.held = View(d.held.what, w)
    <3>1. d = [kind |-> d.kind, held |-> View(d.held.what, w)]
      BY <1>1, <1>2 DEF DragOK
    <3> HIDE DEF d
    <3> QED BY <3>1
  <2> QED BY <1>1, <2>1, <2>2
<1>3. CASE d.kind # "insert"
  <2>1. Grabs(d, tree)
    BY <1>1, <1>3 DEF DragOK
  <2>2. PICK n \in DOMAIN tree : tree[n].id = d.from /\ d.index \in DOMAIN tree[n].views
    BY <2>1 DEF Grabs
  <2>3. \A m \in DOMAIN tree : tree[m].id = d.from <=> m = n
    BY <1>1, <2>2 DEF GoodTree, Distinct
  <2>4. findPane(tree, d.from) = {n}
    BY <2>3 DEF findPane
  <2> DEFINE v == tree[n].views[d.index]
  <2>5. Carried(q) = v
    <3>1. Carried(q) = tree[CHOOSE m \in findPane(tree, d.from) : TRUE].views[d.index]
      BY <1>3 DEF Carried
    <3>2. (CHOOSE m \in {n} : TRUE) = n
      OBVIOUS
    <3> QED BY <3>1, <3>2, <2>4
  <2>6. PaneHome(tree[n], w)
    BY <1>1 DEF GoodTree, PanesHome
  <2>7. v = [what |-> v.what, at |-> w]
    BY <2>2, <2>6 DEF PaneHome
  <2> HIDE DEF v
  <2>8. v = View(v.what, w)
    BY <2>7 DEF View
  <2> DEFINE pane == close_tab(tree[n], d.index)
             new == [tree EXCEPT ![n] = pane]
  <2>9. Lifted(q) = [m \in DOMAIN tree |-> IF tree[m].id = d.from THEN close_tab(tree[m], d.index) ELSE tree[m]]
    BY <1>3 DEF Lifted
  <2>10. PaneHome(pane, w) /\ pane.id = tree[n].id
    BY <2>2, <2>6, CloseHome
  <2> DEFINE l == Lifted(q)
  <2>11. /\ l = [m \in DOMAIN tree |-> l[m]]
         /\ l[n] = pane
         /\ \A m \in DOMAIN tree : m # n => l[m] = tree[m]
    BY <2>2, <2>3, <2>9
  <2> HIDE DEF pane, l
  <2>12. \A m \in DOMAIN tree : l[m].id = tree[m].id /\ PaneHome(l[m], w)
    BY <1>1, <2>10, <2>11 DEF GoodTree, PanesHome
  <2>13. GoodTree(l, w) /\ DOMAIN l = DOMAIN tree
    BY <1>1, <2>11, <2>12, TreeMapped
  <2> QED BY <2>5, <2>8, <2>13 DEF l
<1> QED BY <1>2, <1>3

\* A drag ends on a strip, or on an edge of a pane.
LEMMA DragEndStep == ASSUME LayoutIInv, NEW p \in Pages, OnDragEnd(p) PROVE LayoutIInv'
<1> DEFINE q == page[p]
           left == Lifted(q)
           w == q.space
<1>1. PageOK(q) /\ q.drag # NoDrag
  BY DEF LayoutIInv, PagesOK, OnDragEnd
<1>2. GoodTree(left, w) /\ DOMAIN left = DOMAIN q.tree
  BY <1>1, LiftedGood
<1>3. PICK x : Carried(q) = View(x, w)
  BY <1>1, LiftedGood
<1>4. PICK n \in DOMAIN q.tree :
         \E tree \in {[left EXCEPT ![n] = Insert(@, k, Carried(q))] : k \in 1 .. Len(q.tree[n].views) + 1}
                       \cup {splitPane(left, n, before, <<Carried(q)>>) : before \in BOOLEAN} :
            Shows(p, [q EXCEPT !.tree = tree, !.drag = NoDrag])
  BY DEF OnDragEnd
<1> HIDE DEF left
<1>5. PICK tree : GoodTree(tree, w) /\ Shows(p, [q EXCEPT !.tree = tree, !.drag = NoDrag])
  <2>1. CASE \E k \in 1 .. Len(q.tree[n].views) + 1 :
               Shows(p, [q EXCEPT !.tree = [left EXCEPT ![n] = Insert(@, k, Carried(q))], !.drag = NoDrag])
    <3>1. PICK k \in 1 .. Len(q.tree[n].views) + 1 :
               Shows(p, [q EXCEPT !.tree = [left EXCEPT ![n] = Insert(@, k, Carried(q))], !.drag = NoDrag])
      BY <2>1
    <3> DEFINE pane == Insert(left[n], k, View(x, w))
    <3>2. PaneHome(left[n], w)
      BY <1>2 DEF GoodTree, PanesHome
    <3>3. k \in Nat /\ k >= 1
      OBVIOUS
    <3>4. PaneHome(pane, w) /\ pane.id = left[n].id
      BY <3>2, <3>3, InsertHome
    <3>5. Shows(p, [q EXCEPT !.tree = [left EXCEPT ![n] = pane], !.drag = NoDrag])
      BY <3>1, <1>3
    <3> HIDE DEF pane
    <3>6. GoodTree([left EXCEPT ![n] = pane], w)
      BY <1>2, <3>4, PaneChanged
    <3> QED BY <3>5, <3>6
  <2>2. CASE \E before \in BOOLEAN :
               Shows(p, [q EXCEPT !.tree = splitPane(left, n, before, <<Carried(q)>>), !.drag = NoDrag])
    <3>1. PICK before \in BOOLEAN :
               Shows(p, [q EXCEPT !.tree = splitPane(left, n, before, <<View(x, w)>>), !.drag = NoDrag])
      BY <2>2, <1>3
    <3>2. GoodTree(splitPane(left, n, before, <<View(x, w)>>), w)
      BY <1>2, SplitPane
    <3> QED BY <3>1, <3>2
  <2> QED BY <1>4, <2>1, <2>2
<1> DEFINE r == [q EXCEPT !.tree = tree, !.drag = NoDrag]
<1>0. r = [q EXCEPT !.tree = tree, !.drag = NoDrag]
  OBVIOUS
<1> HIDE DEF q, r
<1>6. IsPage(r) /\ r.space = q.space /\ r.tree = tree /\ r.drag = NoDrag /\ r.call = q.call
  BY <1>0, <1>1 DEF PageOK, IsPage
<1>7. PageOK(r)
  BY <1>1, <1>5, <1>6 DEF PageOK, DragOK
<1> QED BY <1>5, <1>7, ShownStep DEF OnDragEnd, r

\* A drag is given up.
LEMMA CancelStep == ASSUME LayoutIInv, NEW p \in Pages, Cancelled(p) PROVE LayoutIInv'
<1>1. PageOK(page[p])
  BY DEF LayoutIInv, PagesOK
<1>2. PageOK([page[p] EXCEPT !.drag = NoDrag])
  BY <1>1, DragChanged DEF DragOK
<1> QED BY <1>2, PageStep DEF Cancelled

\* What the list, a tick or a call change of a page is not its panes.
LEMMA AsideStep ==
  ASSUME LayoutIInv, NEW p \in Pages, ListArrives(p) \/ tick(p) \/ Calls(p)
  PROVE  LayoutIInv'
<1> DEFINE q == page[p]
<1>1. PageOK(q)
  BY DEF LayoutIInv, PagesOK
<1>2. CASE ListArrives(p)
  <2> DEFINE r == [q EXCEPT !.listed = q.space]
  <2>1. page' = [page EXCEPT ![p] = r] /\ UNCHANGED <<stored, named, ring>>
    BY <1>2 DEF ListArrives
  <2>2. IsPage(r) /\ r.space = q.space /\ r.tree = q.tree /\ r.drag = q.drag /\ r.call = q.call
    BY <1>1 DEF PageOK, IsPage
  <2> HIDE DEF r
  <2> QED BY <1>1, <2>1, <2>2, PageStep DEF PageOK
<1>3. CASE tick(p)
  <2>1. PICK x : page' = [page EXCEPT ![p].polls = x]
    BY <1>3 DEF tick
  <2> DEFINE r == [q EXCEPT !.polls = x]
  <2>2. page' = [page EXCEPT ![p] = r] /\ UNCHANGED <<stored, named, ring>>
    BY <1>3, <2>1 DEF tick
  <2>3. IsPage(r) /\ r.space = q.space /\ r.tree = q.tree /\ r.drag = q.drag /\ r.call = q.call
    BY <1>1 DEF PageOK, IsPage
  <2> HIDE DEF r
  <2> QED BY <1>1, <2>2, <2>3, PageStep DEF PageOK
<1>4. CASE Calls(p)
  <2>1. PICK a, b : page' = [page EXCEPT ![p].call = <<[seat |-> a, space |-> q.space, hit |-> b]>>]
    BY <1>4 DEF Calls
  <2> DEFINE c == [seat |-> a, space |-> q.space, hit |-> b]
             r == [q EXCEPT !.call = <<c>>]
  <2>2. page' = [page EXCEPT ![p] = r] /\ UNCHANGED <<stored, named, ring>>
    BY <1>4, <2>1 DEF Calls
  <2>3. c.space \in Workspaces
    BY <1>1 DEF PageOK
  <2> HIDE DEF c
  <2>4. IsPage(r) /\ r.space = q.space /\ r.tree = q.tree /\ r.drag = q.drag /\ r.call = <<c>>
    BY <1>1 DEF PageOK, IsPage
  <2> HIDE DEF r
  <2> QED BY <1>1, <2>2, <2>3, <2>4, PageStep DEF PageOK, CallOK
<1> QED BY <1>2, <1>3, <1>4

\* A call that comes back focuses a tab, if the page is where it was.
LEMMA ReturnedGood ==
  ASSUME NEW q, PageOK(q), NEW hit, NEW b \in BOOLEAN,
         NEW r, r = [q EXCEPT !.call = <<>>, !.tree = IF b THEN focusView(@, hit) ELSE @]
  PROVE  PageOK(r)
<1> DEFINE t == IF b THEN focusView(q.tree, hit) ELSE q.tree
<1>1. GoodTree(t, q.space) /\ Grown(q.tree, t)
  <2>1. Grown(q.tree, q.tree)
    BY DEF Grown
  <2> QED BY <2>1, FocusGood DEF PageOK
<1>2. r = [q EXCEPT !.call = <<>>, !.tree = t]
  OBVIOUS
<1> HIDE DEF t
<1>3. IsPage(r) /\ r.space = q.space /\ r.tree = t /\ r.drag = q.drag /\ r.call = <<>>
  BY <1>2 DEF PageOK, IsPage
<1>4. DragOK(q.drag, t, q.space)
  BY <1>1, GrownGrabs DEF PageOK, DragOK
<1> QED BY <1>1, <1>3, <1>4 DEF PageOK, CallOK

\* The answer of a call, or its failure.
LEMMA ReturnStep ==
  ASSUME LayoutIInv, NEW p \in Pages, Answered(p) \/ Failed(p)
  PROVE  LayoutIInv'
<1> DEFINE q == page[p]
           c == Head(q.call)
           r == [q EXCEPT !.call = <<>>, !.tree = IF q.space = c.space THEN focusView(@, c.hit) ELSE @]
<1>1. PageOK(q) /\ StoredOK
  BY DEF LayoutIInv, PagesOK
<1>2. PageOK(r)
  <2> DEFINE b == q.space = c.space
  <2>1. b \in BOOLEAN
    OBVIOUS
  <2>2. r = [q EXCEPT !.call = <<>>, !.tree = IF b THEN focusView(@, c.hit) ELSE @]
    OBVIOUS
  <2> HIDE DEF r, b, q
  <2> QED BY <1>1, <2>1, <2>2, ReturnedGood
<1>3. c.space \in Workspaces
  <2>1. q.call # <<>>
    BY DEF Answered, Failed
  <2>2. PICK x : q.call = <<x>> /\ x.space \in Workspaces
    BY <1>1, <2>1 DEF PageOK, CallOK
  <2> QED BY <2>2
<1>4. UNCHANGED <<named, ring>>
  BY DEF Answered, Failed
<1>5. \E s : Shows(p, navigate(r, c.space, s)) \/ Shows(p, r)
  BY DEF Answered, Failed
<1> HIDE DEF r, c
<1>6. PICK s : Shows(p, navigate(r, c.space, s)) \/ Shows(p, r)
  BY <1>5
<1>7. PageOK(navigate(r, c.space, s))
  BY <1>1, <1>2, <1>3, NavigateGood
<1> QED BY <1>2, <1>4, <1>6, <1>7, ShownStep

\* Another workspace's tab.
LEMMA VisitStep == ASSUME LayoutIInv, NEW p \in Pages, Visit(p) PROVE LayoutIInv'
<1>1. PageOK(page[p]) /\ StoredOK /\ UNCHANGED <<named, ring>>
  BY DEF LayoutIInv, PagesOK, Visit
<1>2. PICK w \in Workspaces : Shows(p, navigate(page[p], w, Nowhere))
  BY DEF Visit
<1>3. PageOK(navigate(page[p], w, Nowhere))
  BY <1>1, NavigateGood
<1> QED BY <1>1, <1>2, <1>3, ShownStep

\* The window is reloaded.
LEMMA ReloadStep == ASSUME LayoutIInv, NEW p \in Pages, Reload(p) PROVE LayoutIInv'
<1> DEFINE m == Mounted(page[p], page[p].space)
           q == [m EXCEPT !.call = <<>>, !.listed = Nowhere]
           t == Pinned(q.tree, q.space, q.link)
           r == [q EXCEPT !.tree = t]
<1>1. PageOK(page[p]) /\ StoredOK /\ UNCHANGED <<named, ring>>
  BY DEF LayoutIInv, PagesOK, Reload
<1>2. PageOK(m) /\ m.drag = NoDrag
  <2>1. page[p].space \in Workspaces
    BY <1>1 DEF PageOK
  <2> QED BY <1>1, <2>1, MountedGood
<1>3. Shows(p, r)
  BY DEF Reload
<1> HIDE DEF m
<1>0. q = [m EXCEPT !.call = <<>>, !.listed = Nowhere]
  OBVIOUS
<1> HIDE DEF q
<1>4. IsPage(q) /\ q.space = m.space /\ q.tree = m.tree /\ q.drag = m.drag /\ q.call = <<>>
  BY <1>0, <1>2 DEF PageOK, IsPage
<1>5. PageOK(q) /\ q.drag = NoDrag
  BY <1>2, <1>4 DEF PageOK, CallOK
<1>6. GoodTree(t, q.space)
  BY <1>5, PinnedGood DEF PageOK
<1> HIDE DEF t
<1>7. PageOK(r)
  BY <1>5, <1>6, TreeShown
<1> HIDE DEF r
<1> QED BY <1>1, <1>3, <1>7, ShownStep

\* The drag is renamed as the tabs are.
LEMMA ArriveStep == ASSUME LayoutIInv, NEW p \in Pages, Arrives(p) PROVE LayoutIInv'
<1> DEFINE old == page[p]
<1>1. PageOK(old) /\ UNCHANGED <<named, ring>>
  BY DEF LayoutIInv, PagesOK, Arrives
<1>2. PICK i \in DOMAIN old.polls :
         Shows(p, [[old EXCEPT !.polls = RemoveAt(@, i), !.cursor = old.polls[i][2]] EXCEPT
                     !.tree = swapSessionTab(@, SubSeq(bus[old.space], old.polls[i][1] + 1, old.polls[i][2])),
                     !.drag = Renamed(@, SubSeq(bus[old.space], old.polls[i][1] + 1, old.polls[i][2]))])
  <2> DEFINE b(x) == [old EXCEPT !.polls = RemoveAt(@, x), !.cursor = old.polls[x][2]]
  <2>1. PICK i \in DOMAIN old.polls :
           Shows(p, [b(i) EXCEPT
                     !.tree = swapSessionTab(@, SubSeq(bus[b(i).space], old.polls[i][1] + 1, old.polls[i][2])),
                     !.drag = Renamed(@, SubSeq(bus[b(i).space], old.polls[i][1] + 1, old.polls[i][2]))])
    BY DEF Arrives
  <2>2. b(i).space = old.space
    BY <1>1 DEF PageOK, IsPage
  <2> QED BY <2>1, <2>2
<1> DEFINE left == RemoveAt(old.polls, i)
           c == old.polls[i][2]
           events == SubSeq(bus[old.space], old.polls[i][1] + 1, c)
           q == [old EXCEPT !.polls = left, !.cursor = c]
           d == q.drag
           e == Renamed(d, events)
           t == swapSessionTab(q.tree, events)
           r == [q EXCEPT !.tree = t, !.drag = e]
<1>3. Shows(p, r)
  BY <1>2
<1>0. q = [old EXCEPT !.polls = left, !.cursor = c]
  OBVIOUS
<1> HIDE DEF q, events, old, left, c
<1>4. IsPage(q) /\ q.space = old.space /\ q.tree = old.tree /\ q.drag = old.drag /\ q.call = old.call
  BY <1>0, <1>1 DEF PageOK, IsPage
<1>5. PageOK(q)
  BY <1>1, <1>4 DEF PageOK
<1>6. GoodTree(t, q.space)
  BY <1>5, SwapGood DEF PageOK
<1>7. DragOK(e, t, q.space)
  <2>1. DragOK(d, q.tree, q.space) /\ GoodTree(q.tree, q.space)
    BY <1>5 DEF PageOK
  <2> HIDE DEF d
  <2>2. CASE d = NoDrag
    BY <2>2 DEF NoDrag, DragOK, Renamed
  <2>3. CASE d.kind = "insert" /\ d = [kind |-> d.kind, held |-> View(d.held.what, q.space)]
    BY <2>3 DEF DragOK, Renamed
  <2>4. CASE /\ d.kind = "move"
             /\ d = [kind |-> d.kind, from |-> d.from, index |-> d.index, held |-> d.held]
             /\ d.held = [what |-> d.held.what, at |-> d.held.at]
             /\ Grabs(d, q.tree)
    <3> DEFINE h == Swapped(d.held, events)
    <3>1. e = [d EXCEPT !.held = h]
      BY <2>4 DEF Renamed
    <3>2. h = [what |-> Successor(d.held.what, events), at |-> d.held.at]
      BY <2>4, SwappedView
    <3> DEFINE x == Successor(d.held.what, events)
    <3> HIDE DEF h, e
    <3>3. e.kind = "move" /\ e.from = d.from /\ e.index = d.index /\ e.held = h
          /\ e = [kind |-> e.kind, from |-> e.from, index |-> e.index, held |-> e.held]
      BY <2>4, <3>1
    <3>4. h = [what |-> x, at |-> d.held.at]
      BY <3>2
    <3> HIDE DEF x
    <3>5. h.what = x /\ h = [what |-> h.what, at |-> h.at]
      BY <3>4
    <3>6. Grabs(e, t)
      BY <2>1, <2>4, <3>3, <3>5, SwapGood DEF x
    <3> QED BY <3>3, <3>5, <3>6 DEF DragOK
  <2> QED BY <2>1, <2>2, <2>3, <2>4 DEF DragOK
<1>10. r = [q EXCEPT !.tree = t, !.drag = e]
  OBVIOUS
<1> HIDE DEF t, e, r
<1>8. IsPage(r) /\ r.space = q.space /\ r.tree = t /\ r.drag = e /\ r.call = q.call
  BY <1>10, <1>5 DEF PageOK, IsPage
<1>9. PageOK(r)
  BY <1>5, <1>6, <1>7, <1>8 DEF PageOK
<1> QED BY <1>1, <1>3, <1>9, ShownStep

\* The server restarts: polls under way are lost.
LEMMA RestartedStep == ASSUME LayoutIInv, ServerRestarts PROVE LayoutIInv'
<1>1. page' = [p \in Pages |-> [page[p] EXCEPT !.polls = <<>>]] /\ UNCHANGED <<stored, named, ring>>
  BY DEF ServerRestarts
<1>2. ASSUME NEW p \in Pages PROVE PageOK(page'[p])
  <2> DEFINE q == page[p]
             r == [q EXCEPT !.polls = <<>>]
  <2>1. PageOK(q)
    BY DEF LayoutIInv, PagesOK
  <2>2. page'[p] = r
    BY <1>1
  <2>3. IsPage(r) /\ r.space = q.space /\ r.tree = q.tree /\ r.drag = q.drag /\ r.call = q.call
    BY <2>1 DEF PageOK, IsPage
  <2> HIDE DEF q, r
  <2>4. PageOK(r)
    BY <2>1, <2>3 DEF PageOK
  <2> QED BY <2>2, <2>4
<1>3. PagesOK'
  BY <1>1, <1>2 DEF PagesOK
<1> QED BY <1>1, <1>3, NamedKept, RingKept DEF LayoutIInv, StoredOK

\* A session is cycled: nothing in the pages yet.
LEMMA CycledStep == ASSUME LayoutIInv, NEW w, Cycled(w) PROVE LayoutIInv'
BY DEF Cycled, LayoutIInv, PagesOK, StoredOK, NamedOK, RingOK

\* Pages start with the default layout, and it is stored.
LEMMA LayoutStarts == ASSUME LayoutInit PROVE LayoutIInv
<1>1. \A w : GoodTree(defaultLayout(w), w) /\ GoodTree(<<>>, w) /\ PanesHome(<<>>, w)
  BY DefaultGood, EmptyGood DEF GoodTree
<1>2. ASSUME NEW p \in Pages PROVE PageOK(page[p])
  <2>1. PICK w \in Workspaces :
          page[p] = [space |-> w, link |-> Nowhere, tree |-> defaultLayout(w), drag |-> NoDrag,
                     listed |-> Nowhere, call |-> <<>>, cursor |-> 0, polls |-> <<>>]
    BY DEF LayoutInit
  <2> DEFINE q == page[p]
             t == defaultLayout(w)
  <2>2. GoodTree(t, w)
    BY <1>1
  <2> HIDE DEF t, q
  <2>3. IsPage(q) /\ q.space = w /\ q.tree = t /\ q.drag = NoDrag /\ q.call = <<>>
    BY <2>1 DEF IsPage, q, t
  <2>4. PageOK(q)
    BY <2>2, <2>3 DEF PageOK, DragOK, CallOK
  <2> QED BY <2>4 DEF q
<1>3. PagesOK
  BY <1>2 DEF LayoutInit, PagesOK
<1>4. StoredOK /\ NamedOK /\ RingOK
  BY <1>1 DEF LayoutInit, StoredOK, NamedOK, RingOK
<1> QED BY <1>3, <1>4 DEF LayoutIInv

\* Every step keeps the invariant.
LEMMA LayoutKeeps == ASSUME LayoutIInv, [LayoutNext]_layoutVars PROVE LayoutIInv'
<1>1. ASSUME NEW p \in Pages, UserActs(p) PROVE LayoutIInv'
  BY <1>1, TabStep, CloseStep, SaveStep, DragStartStep, InsertStartStep, DragEndStep, CancelStep,
     AsideStep, VisitStep, ReloadStep DEF UserActs
<1>2. ASSUME NEW p \in Pages,
             ListArrives(p) \/ Answered(p) \/ Failed(p) \/ tick(p) \/ Arrives(p)
      PROVE  LayoutIInv'
  BY <1>2, AsideStep, ReturnStep, ArriveStep
<1>3. CASE UNCHANGED layoutVars
  BY <1>3 DEF layoutVars, LayoutIInv, PagesOK, StoredOK, NamedOK, RingOK
<1> QED BY <1>1, <1>2, <1>3, CycledStep, RestartedStep DEF LayoutNext

\* So the invariant holds always.
LEMMA LayoutInductive == LayoutSpec => []LayoutIInv
<1> QED BY LayoutStarts, LayoutKeeps, PTL DEF LayoutSpec

\* The views of a tree of w were opened in w.
LEMMA ViewsHome == ASSUME NEW w, NEW tree, PanesHome(tree, w) PROVE \A v \in ViewsOf(tree) : v.at = w
<1> SUFFICES ASSUME NEW v \in ViewsOf(tree) PROVE v.at = w
  OBVIOUS
<1>1. PICK n \in DOMAIN tree : v \in ToSet(tree[n].views)
  BY DEF ViewsOf
<1>2. PICK k \in DOMAIN tree[n].views : v = tree[n].views[k]
  BY <1>1 DEF ToSet
<1> QED BY <1>1, <1>2 DEF PanesHome, PaneHome

\* A layout never crosses workspaces, for any number of windows over one local
\* storage: whatever is shown, stored, saved or kept for reopening in a workspace
\* was opened in it, also when a wake or a spawn is answered after the user has
\* gone elsewhere (layout/provider.tsx, layout/reducer.ts, persistence.ts).
THEOREM LayoutsStay == LayoutSpec => []LayoutsStayHome
<1>1. LayoutIInv => LayoutsStayHome
  BY ViewsHome DEF LayoutIInv, PagesOK, PageOK, StoredOK, NamedOK, RingOK, GoodTree, LayoutsStayHome
<1> QED BY <1>1, LayoutInductive, PTL

\* The pane and the index that a drag was given when the button went down name the
\* tab that was grabbed until it comes up, over layout events, calls that return
\* and deep links (reducer.ts's openSessionTab and swapSessionTab).
THEOREM GrabbedIsHeld == LayoutSpec => []HoldsGrabbed
<1>1. LayoutIInv => HoldsGrabbed
  <2> SUFFICES ASSUME LayoutIInv, NEW p \in Pages, page[p].drag.kind = "move"
               PROVE  Grabs(page[p].drag, page[p].tree)
    BY DEF HoldsGrabbed, Grabs
  <2>1. DragOK(page[p].drag, page[p].tree, page[p].space)
    BY DEF LayoutIInv, PagesOK, PageOK
  <2> QED BY <2>1 DEF DragOK, NoDrag
<1> QED BY <1>1, LayoutInductive, PTL

-----------------------------------------------------------------------------
(* The files of a role (RoleTree).                                         *)

\* A name of one segment.
Single(n) == \E x : n = <<x>>

\* A skill: its companions are files other than its body.
SkillOK(skill) ==
    /\ skill = [body |-> skill.body, files |-> skill.files]
    /\ skill.files = [f \in DOMAIN skill.files |-> skill.files[f]]
    /\ \A f \in DOMAIN skill.files : IsSeq(f) /\ Len(f) >= 1 /\ f # Body

\* A program has a system part.
ProgramOK(program) ==
    /\ program = [system |-> program.system, user |-> program.user]
    /\ program.system # Absent

\* A contract whose files have paths of their own.
ContractOK(c) ==
    /\ c = [prompt |-> c.prompt, skills |-> c.skills, programs |-> c.programs, triggers |-> c.triggers]
    /\ c.skills = [n \in DOMAIN c.skills |-> c.skills[n]]
    /\ \A n \in DOMAIN c.skills : Single(n) /\ SkillOK(c.skills[n])
    /\ c.programs = [n \in DOMAIN c.programs |-> c.programs[n]]
    /\ \A n \in DOMAIN c.programs : Single(n) /\ ProgramOK(c.programs[n])
    /\ slugsDiffer(c.triggers)

\* A tree of files: paths are lists, and what a program's file holds is not null.
TreeOK(tree) ==
    /\ tree = [p \in DOMAIN tree |-> tree[p]]
    /\ \A p \in DOMAIN tree : IsSeq(p) /\ (p[1] = "wake-programs" => tree[p] # Absent)

\* The elements of two lists, one after the other.
LEMMA ConcatAt ==
  ASSUME NEW S, NEW a \in Seq(S), NEW b \in Seq(S)
  PROVE  /\ \A k \in 1 .. Len(a) : (a \o b)[k] = a[k]
         /\ \A k \in 1 .. Len(b) : (a \o b)[Len(a) + k] = b[k]
<1>0. Len(a) \in Nat /\ Len(b) \in Nat
  OBVIOUS
<1>1. ASSUME NEW k \in 1 .. Len(a) PROVE (a \o b)[k] = a[k]
  BY <1>0
<1>2. ASSUME NEW k \in 1 .. Len(b) PROVE (a \o b)[Len(a) + k] = b[k]
  <2>1. Len(a) + k \in 1 .. Len(a) + Len(b) /\ Len(a) + k > Len(a) /\ Len(a) + k - Len(a) = k
    BY <1>0
  <2> QED BY <1>0, <2>1
<1> QED BY <1>1, <1>2

\* Segments joined to a path.
LEMMA TwoNamed ==
  ASSUME NEW a, NEW b
  PROVE  <<a>> \o <<b>> = <<a, b>>
<1> DEFINE S == {a, b}
           s == <<a>>
           t == <<b>>
           r == s \o t
<1>1. s \in Seq(S) /\ t \in Seq(S) /\ Len(s) = 1 /\ Len(t) = 1 /\ s[1] = a /\ t[1] = b
  OBVIOUS
<1> HIDE DEF S, s, t
<1>2. r \in Seq(S) /\ Len(r) = 2 /\ r[1] = a /\ r[2] = b
  <2>1. r \in Seq(S) /\ Len(r) = Len(s) + Len(t)
    BY <1>1, SeqConcat
  <2>2. r[1] = s[1] /\ r[Len(s) + 1] = t[1]
    BY <1>1, ConcatAt
  <2> QED BY <1>1, <2>1, <2>2
<1> HIDE DEF r
<1>3. r = <<a, b>>
  BY <1>2
<1> QED BY <1>3 DEF r, s, t

\* And one more.
LEMMA ThreeNamed ==
  ASSUME NEW a, NEW b, NEW c
  PROVE  <<a, b>> \o <<c>> = <<a, b, c>>
<1> DEFINE S == {a, b, c}
           s == <<a, b>>
           t == <<c>>
           r == s \o t
<1>1. s \in Seq(S) /\ t \in Seq(S) /\ Len(s) = 2 /\ Len(t) = 1 /\ s[1] = a /\ s[2] = b /\ t[1] = c
  OBVIOUS
<1> HIDE DEF S, s, t
<1>2. r \in Seq(S) /\ Len(r) = 3 /\ r[1] = a /\ r[2] = b /\ r[3] = c
  <2>1. r \in Seq(S) /\ Len(r) = Len(s) + Len(t)
    BY <1>1, SeqConcat
  <2>2. \A k \in 1 .. Len(s) : r[k] = s[k]
    BY <1>1, ConcatAt
  <2>3. \A k \in 1 .. Len(t) : r[Len(s) + k] = t[k]
    BY <1>1, ConcatAt
  <2> HIDE DEF r
  <2>4. r[1] = s[1] /\ r[2] = s[2]
    BY <1>1, <2>2
  <2>5. r[3] = t[1]
    BY <1>1, <2>3
  <2> QED BY <1>1, <2>1, <2>4, <2>5
<1> HIDE DEF r
<1>3. r = <<a, b, c>>
  BY <1>2
<1> QED BY <1>3 DEF r, s, t

\* The path of a skill's file tells the skill and the file.
LEMMA SkillPath ==
  ASSUME NEW x, NEW f, IsSeq(f)
  PROVE  /\ IsSeq(SkillFile(<<x>>, f))
         /\ Len(SkillFile(<<x>>, f)) = Len(f) + 2
         /\ SkillFile(<<x>>, f)[1] = "skills"
         /\ SkillFile(<<x>>, f)[2] = x
         /\ Rest(SkillFile(<<x>>, f)) = f
<1>1. PICK S : f \in Seq(S)
  BY DEF IsSeq
<1> DEFINE T == S \cup {"skills", x}
           a == <<"skills", x>>
           p == a \o f
<1>2. f \in Seq(T) /\ a \in Seq(T) /\ Len(a) = 2 /\ a[1] = "skills" /\ a[2] = x
  BY <1>1
<1>3. <<"skills">> \o <<x>> = a
  BY TwoNamed
<1>4. SkillFile(<<x>>, f) = p
  BY <1>3 DEF SkillFile
<1> HIDE DEF T, a
<1>0. Len(f) \in Nat
  BY <1>2
<1>5. p \in Seq(T) /\ Len(p) = Len(f) + 2
  <2>1. p \in Seq(T) /\ Len(p) = Len(a) + Len(f)
    BY <1>2, SeqConcat
  <2> QED BY <2>1, <1>0, <1>2
<1>6. p[1] = "skills" /\ p[2] = x /\ \A k \in 1 .. Len(f) : p[k + 2] = f[k]
  <2>1. \A k \in 1 .. Len(a) : p[k] = a[k]
    BY <1>2, ConcatAt
  <2>3. ASSUME NEW k \in 1 .. Len(f) PROVE p[Len(a) + k] = f[k]
    <3>1. f \in Seq(T) /\ a \in Seq(T)
      BY <1>2
    <3> QED BY <3>1, ConcatAt
  <2>2. \A k \in 1 .. Len(f) : Len(a) + k = k + 2
    BY <1>0, <1>2
  <2> HIDE DEF p
  <2> QED BY <1>2, <2>1, <2>2, <2>3
<1> HIDE DEF p
<1>7. Rest(p) = f
  <2> DEFINE r == SubSeq(p, 3, Len(p))
  <2>1. Len(f) \in Nat /\ f = [k \in 1 .. Len(f) |-> f[k]]
    BY <1>1
  <2>2. r \in Seq(T) /\ Len(r) = Len(f) /\ \A k \in 1 .. Len(f) : r[k] = p[k + 2]
    <3>1. r = [k \in 1 .. Len(p) - 3 + 1 |-> p[k + 3 - 1]]
      BY <1>5
    <3>2. Len(p) - 3 + 1 = Len(f)
      BY <1>5, <2>1
    <3>3. r \in Seq(T)
      BY <1>5, <2>1
    <3> HIDE DEF r
    <3> QED BY <3>1, <3>2, <3>3, <2>1
  <2>3. r = [k \in 1 .. Len(r) |-> r[k]]
    BY <2>2
  <2> HIDE DEF r
  <2>4. r = f
    BY <2>1, <2>2, <2>3, <1>6
  <2> QED BY <2>4 DEF r, Rest
<1> QED BY <1>4, <1>5, <1>6, <1>7 DEF IsSeq

\* The path of a program's file has three segments.
LEMMA ProgramPath ==
  ASSUME NEW x, NEW f
  PROVE  ProgramFile(<<x>>, f) = <<"wake-programs", x, f>> /\ IsSeq(ProgramFile(<<x>>, f))
<1> DEFINE S == {"wake-programs", x, f}
<1>1. <<"wake-programs">> \o <<x>> = <<"wake-programs", x>>
  BY TwoNamed
<1>2. <<"wake-programs", x>> \o <<f>> = <<"wake-programs", x, f>>
  BY ThreeNamed
<1>3. <<"wake-programs", x, f>> \in Seq(S)
  OBVIOUS
<1> QED BY <1>1, <1>2, <1>3 DEF ProgramFile, IsSeq

\* The other paths are shorter.
LEMMA ShortPaths ==
  /\ IsSeq(Prompt) /\ Len(Prompt) = 1 /\ Prompt[1] = "system-prompt.md"
  /\ IsSeq(Body) /\ Len(Body) = 1
  /\ \A s : IsSeq(TriggerFile(s)) /\ Len(TriggerFile(s)) = 2
            /\ TriggerFile(s)[1] = "triggers" /\ TriggerFile(s)[2] = s
<1>1. Prompt \in Seq({"system-prompt.md"}) /\ Body \in Seq({"SKILL.md"})
  BY DEF Prompt, Body
<1>2. \A s : TriggerFile(s) \in Seq({"triggers", s})
  BY DEF TriggerFile
<1> QED BY <1>1, <1>2 DEF IsSeq, Prompt, Body, TriggerFile

\* The files of a skill: each companion under its own path, beside the body.
LEMMA SkillFilesAre ==
  ASSUME NEW x, NEW skill, SkillOK(skill)
  PROVE  LET g == SkillFiles(<<x>>, skill)
         IN  /\ DOMAIN g = {SkillFile(<<x>>, f) : f \in DOMAIN skill.files \cup {Body}}
             /\ g[SkillFile(<<x>>, Body)] = skill.body
             /\ \A f \in DOMAIN skill.files : g[SkillFile(<<x>>, f)] = skill.files[f]
<1> DEFINE n == <<x>>
           F == DOMAIN skill.files
           body == File(SkillFile(n, Body), skill.body)
           D == {SkillFile(n, f) : f \in F}
           files == [p \in D |-> skill.files[CHOOSE f \in F : SkillFile(n, f) = p]]
           g == SkillFiles(n, skill)
<1>1. \A f, h \in F \cup {Body} : SkillFile(n, f) = SkillFile(n, h) => f = h
  BY SkillPath, ShortPaths DEF SkillOK
<1>2. g = Over(body, files)
  BY DEF SkillFiles
<1>3. DOMAIN body = {SkillFile(n, Body)} /\ body[SkillFile(n, Body)] = skill.body
  BY DEF File
<1>4. DOMAIN files = D
  OBVIOUS
<1>5. \A f \in F : files[SkillFile(n, f)] = skill.files[f]
  <2> SUFFICES ASSUME NEW f \in F PROVE files[SkillFile(n, f)] = skill.files[f]
    OBVIOUS
  <2>1. (CHOOSE h \in F : SkillFile(n, h) = SkillFile(n, f)) = f
    BY <1>1
  <2>2. SkillFile(n, f) \in D
    OBVIOUS
  <2> HIDE DEF n, F, D
  <2> QED BY <2>1, <2>2
<1>6. SkillFile(n, Body) \notin D
  BY <1>1 DEF SkillOK
<1> HIDE DEF files, body, g
<1>7. /\ DOMAIN g = DOMAIN body \cup DOMAIN files
      /\ \A p \in DOMAIN body \cup DOMAIN files : g[p] = IF p \in DOMAIN files THEN files[p] ELSE body[p]
  BY <1>2 DEF Over
<1>8. g[SkillFile(n, Body)] = skill.body
  BY <1>3, <1>4, <1>6, <1>7
<1>9. \A f \in F : g[SkillFile(n, f)] = skill.files[f]
  <2> SUFFICES ASSUME NEW f \in F PROVE g[SkillFile(n, f)] = skill.files[f]
    OBVIOUS
  <2>1. SkillFile(n, f) \in D
    OBVIOUS
  <2> HIDE DEF n, F, D
  <2> QED BY <1>4, <1>5, <1>7, <2>1
<1>10. DOMAIN g = {SkillFile(n, f) : f \in F \cup {Body}}
  BY <1>3, <1>4, <1>7
<1> QED BY <1>8, <1>9, <1>10 DEF g

\* The files of a program: the user part only where there is one.
LEMMA ProgramFilesAre ==
  ASSUME NEW x, NEW program, ProgramOK(program)
  PROVE  LET g == ProgramFiles(<<x>>, program)
             user == ProgramFile(<<x>>, "user.md")
             system == ProgramFile(<<x>>, "system.md")
         IN  /\ DOMAIN g = IF program.user = Absent THEN {system} ELSE {system, user}
             /\ g[system] = program.system
             /\ program.user # Absent => g[user] = program.user
<1> DEFINE user == ProgramFile(<<x>>, "user.md")
           system == ProgramFile(<<x>>, "system.md")
<1>1. user # system
  BY ProgramPath
<1> HIDE DEF user, system
<1> QED BY <1>1 DEF ProgramFiles, File, Over, user, system

\* The files that a contract is written as, part by part.
FileParts(c) ==
    {File(Prompt, c.prompt)}
      \cup {SkillFiles(n, c.skills[n]) : n \in DOMAIN c.skills}
      \cup {ProgramFiles(n, c.programs[n]) : n \in DOMAIN c.programs}
      \cup {File(TriggerFile(Slug[t]), t) : t \in c.triggers}

\* The part of the prompt,
LEMMA PromptPart ==
  ASSUME NEW c, ContractOK(c)
  PROVE  LET g == File(Prompt, c.prompt)
         IN  /\ DOMAIN g = {Prompt} /\ g[Prompt] = c.prompt
             /\ \A p \in DOMAIN g : IsSeq(p) /\ Len(p) = 1 /\ p[1] = "system-prompt.md"
BY ShortPaths DEF File

\* that of a trigger,
LEMMA TriggerPart ==
  ASSUME NEW t
  PROVE  LET g == File(TriggerFile(Slug[t]), t)
         IN  /\ DOMAIN g = {TriggerFile(Slug[t])} /\ g[TriggerFile(Slug[t])] = t
             /\ \A p \in DOMAIN g : IsSeq(p) /\ Len(p) = 2 /\ p[1] = "triggers" /\ p[2] = Slug[t]
BY ShortPaths DEF File

\* that of a skill,
LEMMA SkillPart ==
  ASSUME NEW c, ContractOK(c), NEW n \in DOMAIN c.skills, NEW p \in DOMAIN SkillFiles(n, c.skills[n])
  PROVE  /\ IsSeq(p) /\ Len(p) >= 3 /\ p[1] = "skills" /\ <<p[2]>> = n
         /\ \E f \in DOMAIN c.skills[n].files \cup {Body} : p = SkillFile(n, f) /\ Rest(p) = f
<1> DEFINE skill == c.skills[n]
           g == SkillFiles(n, skill)
<1>1. PICK x : n = <<x>>
  BY DEF ContractOK, Single
<1>2. SkillOK(skill)
  BY DEF ContractOK
<1>3. PICK f \in DOMAIN skill.files \cup {Body} : p = SkillFile(n, f)
  <2>1. p \in DOMAIN g
    OBVIOUS
  <2>2. DOMAIN SkillFiles(<<x>>, skill) = {SkillFile(<<x>>, f) : f \in DOMAIN skill.files \cup {Body}}
    <3> HIDE DEF skill
    <3> QED BY <1>2, SkillFilesAre
  <2>3. DOMAIN g = {SkillFile(n, f) : f \in DOMAIN skill.files \cup {Body}}
    BY <1>1, <2>2
  <2> HIDE DEF g
  <2> QED BY <2>1, <2>3
<1>4. IsSeq(f) /\ Len(f) >= 1 /\ Len(f) \in Nat
  <2>1. CASE f = Body
    BY <2>1, ShortPaths
  <2>2. CASE f \in DOMAIN skill.files
    <3> HIDE DEF skill
    <3> QED BY <1>2, <2>2, SeqForm DEF SkillOK
  <2> QED BY <2>1, <2>2
<1>5. IsSeq(p) /\ Len(p) = Len(f) + 2 /\ p[1] = "skills" /\ p[2] = x /\ Rest(p) = f
  BY <1>1, <1>3, <1>4, SkillPath
<1> QED BY <1>1, <1>3, <1>4, <1>5

\* and that of a program.
LEMMA ProgramPart ==
  ASSUME NEW c, ContractOK(c), NEW n \in DOMAIN c.programs, NEW p \in DOMAIN ProgramFiles(n, c.programs[n])
  PROVE  /\ IsSeq(p) /\ Len(p) = 3 /\ p[1] = "wake-programs" /\ <<p[2]>> = n
         /\ p[3] \in {"system.md", "user.md"} /\ p = ProgramFile(n, p[3])
         /\ ProgramFiles(n, c.programs[n])[p] # Absent
<1> DEFINE program == c.programs[n]
           g == ProgramFiles(n, program)
           system == ProgramFile(n, "system.md")
           user == ProgramFile(n, "user.md")
<1>1. PICK x : n = <<x>>
  BY DEF ContractOK, Single
<1>2. ProgramOK(program)
  BY DEF ContractOK
<1>3. PICK f \in {"system.md", "user.md"} : p = ProgramFile(n, f) /\ g[p] # Absent
  <2>1. /\ DOMAIN g = IF program.user = Absent THEN {system} ELSE {system, user}
        /\ g[system] = program.system
        /\ program.user # Absent => g[user] = program.user
    <3> HIDE DEF program
    <3> QED BY <1>1, <1>2, ProgramFilesAre
  <2>2. p \in DOMAIN g
    OBVIOUS
  <2>3. program.system # Absent
    BY <1>2 DEF ProgramOK
  <2> HIDE DEF g, program
  <2>4. (p = system \/ p = user) /\ g[p] # Absent
    BY <2>1, <2>2, <2>3
  <2> QED BY <2>4
<1> HIDE DEF g
<1>4. p = <<"wake-programs", x, f>> /\ IsSeq(p)
  BY <1>1, <1>3, ProgramPath
<1> QED BY <1>1, <1>3, <1>4 DEF g

\* A part is told by the first two segments of any of its paths.
LEMMA PartForms ==
  ASSUME NEW c, ContractOK(c), NEW g \in FileParts(c), NEW p \in DOMAIN g
  PROVE  \/ g = File(Prompt, c.prompt) /\ p[1] = "system-prompt.md"
         \/ \E n \in DOMAIN c.skills : g = SkillFiles(n, c.skills[n]) /\ p[1] = "skills" /\ n = <<p[2]>>
         \/ \E n \in DOMAIN c.programs :
               g = ProgramFiles(n, c.programs[n]) /\ p[1] = "wake-programs" /\ n = <<p[2]>>
         \/ \E t \in c.triggers :
               g = File(TriggerFile(Slug[t]), t) /\ p[1] = "triggers" /\ p[2] = Slug[t]
<1>1. CASE g = File(Prompt, c.prompt)
  BY <1>1, PromptPart
<1>2. ASSUME NEW n \in DOMAIN c.skills, g = SkillFiles(n, c.skills[n])
      PROVE  p[1] = "skills" /\ n = <<p[2]>>
  BY <1>2, SkillPart
<1>3. ASSUME NEW n \in DOMAIN c.programs, g = ProgramFiles(n, c.programs[n])
      PROVE  p[1] = "wake-programs" /\ n = <<p[2]>>
  BY <1>3, ProgramPart
<1>4. ASSUME NEW t \in c.triggers, g = File(TriggerFile(Slug[t]), t)
      PROVE  p[1] = "triggers" /\ p[2] = Slug[t]
  BY <1>4, TriggerPart
<1>5. \/ g = File(Prompt, c.prompt)
      \/ \E n \in DOMAIN c.skills : g = SkillFiles(n, c.skills[n])
      \/ \E n \in DOMAIN c.programs : g = ProgramFiles(n, c.programs[n])
      \/ \E t \in c.triggers : g = File(TriggerFile(Slug[t]), t)
  BY DEF FileParts
<1> QED BY <1>1, <1>2, <1>3, <1>4, <1>5

\* So a path is of one part: no file of the contract is written over by another.
LEMMA PartsApart ==
  ASSUME NEW c, ContractOK(c), NEW g \in FileParts(c), NEW h \in FileParts(c), NEW p \in DOMAIN g, p \in DOMAIN h
  PROVE  g = h
<1>0. PICK k, s : k = p[1] /\ s = p[2]
  OBVIOUS
<1>1. \/ g = File(Prompt, c.prompt) /\ k = "system-prompt.md"
      \/ <<s>> \in DOMAIN c.skills /\ g = SkillFiles(<<s>>, c.skills[<<s>>]) /\ k = "skills"
      \/ <<s>> \in DOMAIN c.programs /\ g = ProgramFiles(<<s>>, c.programs[<<s>>]) /\ k = "wake-programs"
      \/ \E t \in c.triggers : g = File(TriggerFile(Slug[t]), t) /\ k = "triggers" /\ s = Slug[t]
  BY <1>0, PartForms
<1>2. \/ h = File(Prompt, c.prompt) /\ k = "system-prompt.md"
      \/ <<s>> \in DOMAIN c.skills /\ h = SkillFiles(<<s>>, c.skills[<<s>>]) /\ k = "skills"
      \/ <<s>> \in DOMAIN c.programs /\ h = ProgramFiles(<<s>>, c.programs[<<s>>]) /\ k = "wake-programs"
      \/ \E t \in c.triggers : h = File(TriggerFile(Slug[t]), t) /\ k = "triggers" /\ s = Slug[t]
  BY <1>0, PartForms
<1>3. \A t, u \in c.triggers : Slug[t] = Slug[u] => t = u
  BY DEF ContractOK, slugsDiffer
<1> QED BY <1>1, <1>2, <1>3

\* What is written holds, at each path, what the part of that path has.
LEMMA Written ==
  ASSUME NEW c, ContractOK(c)
  PROVE  /\ DOMAIN serializeRoleTree(c) = UNION {DOMAIN g : g \in FileParts(c)}
         /\ serializeRoleTree(c) = [p \in DOMAIN serializeRoleTree(c) |-> serializeRoleTree(c)[p]]
         /\ \A g \in FileParts(c) : \A p \in DOMAIN g : serializeRoleTree(c)[p] = g[p]
<1> DEFINE P == FileParts(c)
           t == serializeRoleTree(c)
<1>1. t = [p \in UNION {DOMAIN g : g \in P} |-> (CHOOSE g \in P : p \in DOMAIN g)[p]]
  BY DEF serializeRoleTree, FileParts
<1>2. ASSUME NEW g \in P, NEW p \in DOMAIN g PROVE (CHOOSE h \in P : p \in DOMAIN h) = g
  <2> DEFINE h == CHOOSE h \in P : p \in DOMAIN h
  <2>1. h \in P /\ p \in DOMAIN h
    BY <1>2
  <2> HIDE DEF h, P
  <2>2. h = g
    BY <1>2, <2>1, PartsApart DEF P
  <2> QED BY <2>2 DEF h
<1>3. \A g \in P : \A p \in DOMAIN g : p \in UNION {DOMAIN h : h \in P}
  OBVIOUS
<1> HIDE DEF P, t
<1>4. \A g \in P : \A p \in DOMAIN g : t[p] = g[p]
  BY <1>1, <1>2, <1>3
<1>5. DOMAIN t = UNION {DOMAIN g : g \in P} /\ t = [p \in DOMAIN t |-> t[p]]
  BY <1>1
<1> QED BY <1>4, <1>5 DEF P, t

\* The paths that are written, and nothing else.
LEMMA WrittenPaths ==
  ASSUME NEW c, ContractOK(c), NEW p \in DOMAIN serializeRoleTree(c)
  PROVE  /\ IsSeq(p)
         /\ \/ p = Prompt /\ Len(p) = 1 /\ p[1] = "system-prompt.md"
            \/ /\ Len(p) >= 3 /\ p[1] = "skills" /\ <<p[2]>> \in DOMAIN c.skills
               /\ \E f \in DOMAIN c.skills[<<p[2]>>].files \cup {Body} :
                     p = SkillFile(<<p[2]>>, f) /\ Rest(p) = f
            \/ /\ Len(p) = 3 /\ p[1] = "wake-programs" /\ <<p[2]>> \in DOMAIN c.programs
               /\ p[3] \in {"system.md", "user.md"} /\ p = ProgramFile(<<p[2]>>, p[3])
               /\ serializeRoleTree(c)[p] # Absent
            \/ /\ Len(p) = 2 /\ p[1] = "triggers"
               /\ \E t \in c.triggers : p = TriggerFile(Slug[t]) /\ serializeRoleTree(c)[p] = t
<1> DEFINE tree == serializeRoleTree(c)
<1>0. DOMAIN tree = UNION {DOMAIN g : g \in FileParts(c)} /\ p \in DOMAIN tree
  BY Written
<1>01. \A g \in FileParts(c) : \A q \in DOMAIN g : tree[q] = g[q]
  BY Written
<1> HIDE DEF tree
<1>1. PICK g \in FileParts(c) : p \in DOMAIN g
  BY <1>0
<1>2. tree[p] = g[p]
  BY <1>1, <1>01
<1>3. CASE g = File(Prompt, c.prompt)
  BY <1>1, <1>3, PromptPart
<1>4. ASSUME NEW n \in DOMAIN c.skills, g = SkillFiles(n, c.skills[n])
      PROVE  /\ IsSeq(p) /\ Len(p) >= 3 /\ p[1] = "skills" /\ <<p[2]>> = n
             /\ \E f \in DOMAIN c.skills[n].files \cup {Body} : p = SkillFile(n, f) /\ Rest(p) = f
  BY <1>1, <1>4, SkillPart
<1>5. ASSUME NEW n \in DOMAIN c.programs, g = ProgramFiles(n, c.programs[n])
      PROVE  /\ IsSeq(p) /\ Len(p) = 3 /\ p[1] = "wake-programs" /\ <<p[2]>> = n
             /\ p[3] \in {"system.md", "user.md"} /\ p = ProgramFile(n, p[3])
             /\ tree[p] # Absent
  BY <1>1, <1>2, <1>5, ProgramPart
<1>6. ASSUME NEW t \in c.triggers, g = File(TriggerFile(Slug[t]), t)
      PROVE  /\ IsSeq(p) /\ Len(p) = 2 /\ p[1] = "triggers"
             /\ p = TriggerFile(Slug[t]) /\ tree[p] = t
  BY <1>1, <1>2, <1>6, TriggerPart
<1>7. \/ g = File(Prompt, c.prompt)
      \/ \E n \in DOMAIN c.skills : g = SkillFiles(n, c.skills[n])
      \/ \E n \in DOMAIN c.programs : g = ProgramFiles(n, c.programs[n])
      \/ \E t \in c.triggers : g = File(TriggerFile(Slug[t]), t)
  BY DEF FileParts
<1>8. CASE \E n \in DOMAIN c.skills : g = SkillFiles(n, c.skills[n])
  <2>1. PICK n \in DOMAIN c.skills : g = SkillFiles(n, c.skills[n])
    BY <1>8
  <2>2. /\ IsSeq(p) /\ Len(p) >= 3 /\ p[1] = "skills" /\ <<p[2]>> = n
        /\ \E f \in DOMAIN c.skills[n].files \cup {Body} : p = SkillFile(n, f) /\ Rest(p) = f
    BY <2>1, <1>4
  <2> QED BY <2>2
<1>9. CASE \E n \in DOMAIN c.programs : g = ProgramFiles(n, c.programs[n])
  <2>1. PICK n \in DOMAIN c.programs : g = ProgramFiles(n, c.programs[n])
    BY <1>9
  <2>2. /\ IsSeq(p) /\ Len(p) = 3 /\ p[1] = "wake-programs" /\ <<p[2]>> = n
        /\ p[3] \in {"system.md", "user.md"} /\ p = ProgramFile(n, p[3])
        /\ tree[p] # Absent
    BY <2>1, <1>5
  <2> QED BY <2>2 DEF tree
<1>10. CASE \E t \in c.triggers : g = File(TriggerFile(Slug[t]), t)
  BY <1>6, <1>10 DEF tree
<1> QED BY <1>3, <1>7, <1>8, <1>9, <1>10

\* The files of a skill are found where readSkills looks,
LEMMA SkillRead ==
  ASSUME NEW c, ContractOK(c), NEW n \in DOMAIN c.skills
  PROVE  LET tree == serializeRoleTree(c)
             skill == c.skills[n]
         IN  /\ \A f \in DOMAIN skill.files \cup {Body} :
                   SkillFile(n, f) \in DOMAIN tree
             /\ tree[SkillFile(n, Body)] = skill.body
             /\ \A f \in DOMAIN skill.files : tree[SkillFile(n, f)] = skill.files[f]
<1> DEFINE tree == serializeRoleTree(c)
           skill == c.skills[n]
           g == SkillFiles(n, skill)
<1>1. PICK x : n = <<x>>
  BY DEF ContractOK, Single
<1>2. SkillOK(skill)
  BY DEF ContractOK
<1>3. g \in FileParts(c)
  BY DEF FileParts
<1>4. /\ DOMAIN g = {SkillFile(n, f) : f \in DOMAIN skill.files \cup {Body}}
      /\ g[SkillFile(n, Body)] = skill.body
      /\ \A f \in DOMAIN skill.files : g[SkillFile(n, f)] = skill.files[f]
  <2> HIDE DEF skill
  <2> QED BY <1>1, <1>2, SkillFilesAre
<1>5. /\ \A p \in DOMAIN g : p \in DOMAIN tree /\ tree[p] = g[p]
  BY <1>3, Written
<1> HIDE DEF tree, g, skill
<1> QED BY <1>4, <1>5 DEF tree, skill

\* those of a program where readWakePrograms does, no user part where none was,
LEMMA ProgramRead ==
  ASSUME NEW c, ContractOK(c), NEW n \in DOMAIN c.programs
  PROVE  LET tree == serializeRoleTree(c)
             program == c.programs[n]
         IN  /\ ProgramFile(n, "system.md") \in DOMAIN tree
             /\ tree[ProgramFile(n, "system.md")] = program.system
             /\ IF program.user = Absent THEN ProgramFile(n, "user.md") \notin DOMAIN tree
                ELSE /\ ProgramFile(n, "user.md") \in DOMAIN tree
                     /\ tree[ProgramFile(n, "user.md")] = program.user
<1> DEFINE tree == serializeRoleTree(c)
           program == c.programs[n]
           g == ProgramFiles(n, program)
           system == ProgramFile(n, "system.md")
           user == ProgramFile(n, "user.md")
<1>1. PICK x : n = <<x>>
  BY DEF ContractOK, Single
<1>2. ProgramOK(program)
  BY DEF ContractOK
<1>3. g \in FileParts(c)
  BY DEF FileParts
<1>4. /\ DOMAIN g = IF program.user = Absent THEN {system} ELSE {system, user}
      /\ g[system] = program.system
      /\ program.user # Absent => g[user] = program.user
  <2> HIDE DEF program
  <2> QED BY <1>1, <1>2, ProgramFilesAre
<1>5. \A p \in DOMAIN g : p \in DOMAIN tree /\ tree[p] = g[p]
  BY <1>3, Written
<1>6. user # system /\ user[1] = "wake-programs" /\ <<user[2]>> = n
  BY <1>1, ProgramPath
<1>7. ASSUME user \in DOMAIN tree PROVE user \in DOMAIN g
  <2>0. DOMAIN tree = UNION {DOMAIN h : h \in FileParts(c)}
    BY Written
  <2>1. PICK h \in FileParts(c) : user \in DOMAIN h
    <3> HIDE DEF tree, user
    <3> QED BY <1>7, <2>0
  <2>2. \E m \in DOMAIN c.programs : h = ProgramFiles(m, c.programs[m]) /\ m = <<user[2]>>
    BY <2>1, <1>6, PartForms
  <2>3. h = g
    BY <2>2, <1>6
  <2> QED BY <2>1, <2>3
<1> HIDE DEF tree, g, program, system, user
<1>8. /\ system \in DOMAIN tree
      /\ tree[system] = program.system
      /\ IF program.user = Absent THEN user \notin DOMAIN tree
         ELSE user \in DOMAIN tree /\ tree[user] = program.user
  BY <1>4, <1>5, <1>6, <1>7
<1> QED BY <1>8 DEF tree, program, system, user

\* and so are the prompt and the triggers.
LEMMA RestRead ==
  ASSUME NEW c, ContractOK(c)
  PROVE  LET tree == serializeRoleTree(c)
         IN  /\ Prompt \in DOMAIN tree /\ tree[Prompt] = c.prompt
             /\ \A t \in c.triggers : TriggerFile(Slug[t]) \in DOMAIN tree /\ tree[TriggerFile(Slug[t])] = t
<1> DEFINE tree == serializeRoleTree(c)
<1>1. \A g \in FileParts(c) : \A p \in DOMAIN g : p \in DOMAIN tree /\ tree[p] = g[p]
  BY Written
<1> HIDE DEF tree
<1>2. Prompt \in DOMAIN tree /\ tree[Prompt] = c.prompt
  <2> DEFINE g == File(Prompt, c.prompt)
  <2>1. g \in FileParts(c) /\ Prompt \in DOMAIN g /\ g[Prompt] = c.prompt
    BY PromptPart DEF FileParts
  <2> HIDE DEF g
  <2> QED BY <2>1, <1>1
<1>3. ASSUME NEW t \in c.triggers
      PROVE  TriggerFile(Slug[t]) \in DOMAIN tree /\ tree[TriggerFile(Slug[t])] = t
  <2> DEFINE p == TriggerFile(Slug[t])
             g == File(p, t)
  <2>1. g \in FileParts(c) /\ p \in DOMAIN g /\ g[p] = t
    BY TriggerPart DEF FileParts
  <2> HIDE DEF g, p
  <2>2. p \in DOMAIN tree /\ tree[p] = t
    BY <2>1, <1>1
  <2> QED BY <2>2 DEF p
<1> QED BY <1>2, <1>3 DEF tree

\* What is written can be read, and reads back as it was.
LEMMA RoundTrip ==
  ASSUME NEW c, ContractOK(c)
  PROVE  /\ readable(serializeRoleTree(c))
         /\ deserializeRoleTree(serializeRoleTree(c)) = c
         /\ TreeOK(serializeRoleTree(c))
<1> DEFINE tree == serializeRoleTree(c)
           S == skillPaths(tree)
<1>1. tree = [p \in DOMAIN tree |-> tree[p]]
  BY Written
<1>2. TreeOK(tree)
  <2>1. \A p \in DOMAIN tree : IsSeq(p) /\ (p[1] = "wake-programs" => tree[p] # Absent)
    BY WrittenPaths
  <2> QED BY <1>1, <2>1 DEF TreeOK
<1>3. \A p \in S : /\ <<p[2]>> \in DOMAIN c.skills
                   /\ \E f \in DOMAIN c.skills[<<p[2]>>].files \cup {Body} :
                         p = SkillFile(<<p[2]>>, f) /\ Rest(p) = f
  BY WrittenPaths DEF skillPaths
<1>4. \A n \in DOMAIN c.skills : \A f \in DOMAIN c.skills[n].files \cup {Body} :
         LET p == SkillFile(n, f) IN p \in S /\ <<p[2]>> = n /\ Rest(p) = f
  <2> SUFFICES ASSUME NEW n \in DOMAIN c.skills, NEW f \in DOMAIN c.skills[n].files \cup {Body}
               PROVE  LET p == SkillFile(n, f) IN p \in S /\ <<p[2]>> = n /\ Rest(p) = f
    OBVIOUS
  <2> DEFINE p == SkillFile(n, f)
  <2>1. PICK x : n = <<x>>
    BY DEF ContractOK, Single
  <2>2. IsSeq(f) /\ Len(f) >= 1 /\ Len(f) \in Nat
    <3> DEFINE skill == c.skills[n]
    <3>1. SkillOK(skill) /\ f \in DOMAIN skill.files \cup {Body}
      BY DEF ContractOK
    <3> HIDE DEF skill
    <3>2. CASE f = Body
      BY <3>2, ShortPaths
    <3>3. CASE f \in DOMAIN skill.files
      BY <3>1, <3>3, SeqForm DEF SkillOK
    <3> QED BY <3>1, <3>2, <3>3
  <2>3. Len(p) = Len(f) + 2 /\ p[1] = "skills" /\ p[2] = x /\ Rest(p) = f
    BY <2>1, <2>2, SkillPath
  <2>4. p \in DOMAIN tree
    BY SkillRead
  <2> HIDE DEF p, tree
  <2>5. p \in S /\ <<p[2]>> = n /\ Rest(p) = f
    BY <2>1, <2>2, <2>3, <2>4 DEF skillPaths
  <2> QED BY <2>5 DEF p
<1>5. readable(tree)
  <2>1. Prompt \in DOMAIN tree
    BY RestRead
  <2>2. \A p \in S : SkillFile(<<p[2]>>, Body) \in DOMAIN tree
    BY <1>3, SkillRead
  <2> QED BY <2>1, <2>2 DEF readable
<1>6. readSkills(tree) = c.skills
  <2> DEFINE names == {<<p[2]>> : p \in S}
             files(n) == {Rest(p) : p \in {q \in S : <<q[2]>> = n}}
             read(n) == [body |-> tree[SkillFile(n, Body)],
                         files |-> [f \in files(n) \ {Body} |-> tree[SkillFile(n, f)]]]
  <2>1. names = DOMAIN c.skills
    <3>1. \A n \in DOMAIN c.skills : \E p \in S : n = <<p[2]>>
      BY <1>4
    <3> HIDE DEF S
    <3> QED BY <1>3, <3>1
  <2>2. ASSUME NEW n \in DOMAIN c.skills PROVE read(n) = c.skills[n]
    <3> DEFINE skill == c.skills[n]
    <3>1. SkillOK(skill)
      BY DEF ContractOK
    <3>2. files(n) = DOMAIN skill.files \cup {Body}
      <4>1. \A f \in DOMAIN skill.files \cup {Body} : \E p \in S : <<p[2]>> = n /\ Rest(p) = f
        BY <1>4
      <4>2. \A p \in S : <<p[2]>> = n => Rest(p) \in DOMAIN skill.files \cup {Body}
        BY <1>3
      <4> HIDE DEF S, skill
      <4> QED BY <4>1, <4>2
    <3>3. Body \notin DOMAIN skill.files
      BY <3>1 DEF SkillOK
    <3>4. tree[SkillFile(n, Body)] = skill.body /\ \A f \in DOMAIN skill.files : tree[SkillFile(n, f)] = skill.files[f]
      BY SkillRead
    <3> HIDE DEF tree, skill, files
    <3>5. [f \in files(n) \ {Body} |-> tree[SkillFile(n, f)]] = skill.files
      <4>1. files(n) \ {Body} = DOMAIN skill.files
        BY <3>2, <3>3
      <4>2. skill.files = [f \in DOMAIN skill.files |-> skill.files[f]]
        BY <3>1 DEF SkillOK
      <4> QED BY <4>1, <4>2, <3>4
    <3>6. skill = [body |-> skill.body, files |-> skill.files]
      BY <3>1 DEF SkillOK
    <3> QED BY <3>4, <3>5, <3>6 DEF skill
  <2>3. readSkills(tree) = [n \in names |-> read(n)]
    BY DEF readSkills
  <2>4. c.skills = [n \in DOMAIN c.skills |-> c.skills[n]]
    BY DEF ContractOK
  <2> HIDE DEF names, read, tree
  <2> QED BY <2>1, <2>2, <2>3, <2>4
<1>7. readWakePrograms(tree) = c.programs
  <2> DEFINE systems == {p \in DOMAIN tree : Len(p) = 3 /\ p[1] = "wake-programs" /\ p[3] = "system.md"}
             user(n) == ProgramFile(n, "user.md")
             names == {<<p[2]>> : p \in systems}
             read(n) == [system |-> tree[ProgramFile(n, "system.md")],
                         user |-> IF user(n) \in DOMAIN tree THEN tree[user(n)] ELSE Absent]
  <2>1. names = DOMAIN c.programs
    <3>1. \A p \in systems : <<p[2]>> \in DOMAIN c.programs
      BY WrittenPaths
    <3>2. ASSUME NEW n \in DOMAIN c.programs PROVE \E p \in systems : n = <<p[2]>>
      <4>1. PICK x : n = <<x>>
        BY DEF ContractOK, Single
      <4> DEFINE p == <<"wake-programs", x, "system.md">>
      <4>2. p \in DOMAIN tree
        BY <4>1, ProgramRead, ProgramPath
      <4>3. Len(p) = 3 /\ p[1] = "wake-programs" /\ p[2] = x /\ p[3] = "system.md"
        OBVIOUS
      <4> HIDE DEF p, tree
      <4> QED BY <4>1, <4>2, <4>3
    <3> HIDE DEF systems
    <3> QED BY <3>1, <3>2
  <2>2. ASSUME NEW n \in DOMAIN c.programs PROVE read(n) = c.programs[n]
    <3> DEFINE program == c.programs[n]
    <3>1. program = [system |-> program.system, user |-> program.user]
      BY DEF ContractOK, ProgramOK
    <3>2. /\ tree[ProgramFile(n, "system.md")] = program.system
          /\ IF program.user = Absent THEN user(n) \notin DOMAIN tree
             ELSE user(n) \in DOMAIN tree /\ tree[user(n)] = program.user
      BY ProgramRead
    <3> HIDE DEF tree, program, user
    <3>3. read(n) = [system |-> program.system, user |-> program.user]
      BY <3>2
    <3> QED BY <3>1, <3>3 DEF program
  <2>3. readWakePrograms(tree) = [n \in names |-> read(n)]
    BY DEF readWakePrograms
  <2>4. c.programs = [n \in DOMAIN c.programs |-> c.programs[n]]
    BY DEF ContractOK
  <2> HIDE DEF names, read, tree
  <2> QED BY <2>1, <2>2, <2>3, <2>4
<1>8. readTriggers(tree) = c.triggers
  <2>1. \A p \in DOMAIN tree : Len(p) = 2 /\ p[1] = "triggers" => tree[p] \in c.triggers
    BY WrittenPaths
  <2>2. ASSUME NEW t \in c.triggers
        PROVE  \E p \in DOMAIN tree : Len(p) = 2 /\ p[1] = "triggers" /\ tree[p] = t
    BY RestRead, ShortPaths
  <2> HIDE DEF tree
  <2> QED BY <2>1, <2>2 DEF readTriggers
<1>9. tree[Prompt] = c.prompt
  BY RestRead
<1>10. c = [prompt |-> c.prompt, skills |-> c.skills, programs |-> c.programs, triggers |-> c.triggers]
  BY DEF ContractOK
<1> HIDE DEF tree
<1>11. deserializeRoleTree(tree) = c
  BY <1>6, <1>7, <1>8, <1>9, <1>10 DEF deserializeRoleTree
<1> QED BY <1>2, <1>5, <1>11 DEF tree

\* A skill that is read, of whatever files, can be written again;
LEMMA ReadSkillOK ==
  ASSUME NEW tree, TreeOK(tree), NEW n \in DOMAIN readSkills(tree)
  PROVE  Single(n) /\ SkillOK(readSkills(tree)[n])
<1> DEFINE S == skillPaths(tree)
           files == {Rest(p) : p \in {q \in S : <<q[2]>> = n}}
           skill == [body |-> tree[SkillFile(n, Body)],
                     files |-> [f \in files \ {Body} |-> tree[SkillFile(n, f)]]]
<1>1. n \in {<<p[2]>> : p \in S} /\ readSkills(tree)[n] = skill
  BY DEF readSkills
<1>2. ASSUME NEW p \in S PROVE IsSeq(Rest(p)) /\ Len(Rest(p)) >= 1
  <2>1. IsSeq(p) /\ Len(p) >= 3
    BY DEF TreeOK, skillPaths
  <2>2. PICK T : p \in Seq(T)
    BY <2>1 DEF IsSeq
  <2>3. SubSeq(p, 3, Len(p)) \in Seq(T) /\ Len(SubSeq(p, 3, Len(p))) = Len(p) - 2
    BY <2>1, <2>2
  <2>4. Len(p) \in Nat
    BY <2>2
  <2> QED BY <2>1, <2>3, <2>4 DEF IsSeq, Rest
<1>3. \A f \in files : IsSeq(f) /\ Len(f) >= 1
  BY <1>2
<1>4. Single(n)
  BY <1>1 DEF Single
<1> HIDE DEF files
<1>5. SkillOK(skill)
  <2> DEFINE companions == [f \in files \ {Body} |-> tree[SkillFile(n, f)]]
  <2>1. DOMAIN companions = files \ {Body} /\ companions = [f \in DOMAIN companions |-> companions[f]]
    OBVIOUS
  <2>2. skill.files = companions /\ skill = [body |-> skill.body, files |-> skill.files]
    OBVIOUS
  <2> HIDE DEF companions, skill
  <2> QED BY <1>3, <2>1, <2>2 DEF SkillOK
<1> QED BY <1>1, <1>4, <1>5

\* so can a program,
LEMMA ReadProgramOK ==
  ASSUME NEW tree, TreeOK(tree), NEW n \in DOMAIN readWakePrograms(tree)
  PROVE  Single(n) /\ ProgramOK(readWakePrograms(tree)[n])
<1> DEFINE systems == {p \in DOMAIN tree : Len(p) = 3 /\ p[1] = "wake-programs" /\ p[3] = "system.md"}
           user == ProgramFile(n, "user.md")
           program == [system |-> tree[ProgramFile(n, "system.md")],
                       user |-> IF user \in DOMAIN tree THEN tree[user] ELSE Absent]
<1>1. n \in {<<p[2]>> : p \in systems} /\ readWakePrograms(tree)[n] = program
  BY DEF readWakePrograms
<1>2. PICK p \in systems : n = <<p[2]>>
  BY <1>1
<1>3. p = ProgramFile(n, "system.md") /\ tree[p] # Absent
  <2>1. IsSeq(p) /\ tree[p] # Absent
    BY DEF TreeOK
  <2>2. PICK T : p \in Seq(T)
    BY <2>1 DEF IsSeq
  <2>3. p = <<p[1], p[2], p[3]>>
    BY <2>2
  <2>4. ProgramFile(<<p[2]>>, "system.md") = <<"wake-programs", p[2], "system.md">>
    BY ProgramPath
  <2> QED BY <1>2, <2>1, <2>3, <2>4
<1>4. program = [system |-> program.system, user |-> program.user]
      /\ program.system = tree[ProgramFile(n, "system.md")]
  OBVIOUS
<1> HIDE DEF program
<1> QED BY <1>1, <1>2, <1>3, <1>4 DEF Single, ProgramOK

\* and with them the contract, where its triggers' file names differ.
LEMMA ReadOK ==
  ASSUME NEW tree, TreeOK(tree), slugsDiffer(readTriggers(tree))
  PROVE  ContractOK(deserializeRoleTree(tree))
<1> DEFINE c == deserializeRoleTree(tree)
<1>1. c = [prompt |-> c.prompt, skills |-> c.skills, programs |-> c.programs, triggers |-> c.triggers]
  BY DEF deserializeRoleTree
<1>2. c.skills = readSkills(tree) /\ c.programs = readWakePrograms(tree) /\ c.triggers = readTriggers(tree)
  BY DEF deserializeRoleTree
<1> HIDE DEF c
<1>3. c.skills = [n \in DOMAIN c.skills |-> c.skills[n]]
  BY <1>2 DEF readSkills
<1>4. c.programs = [n \in DOMAIN c.programs |-> c.programs[n]]
  BY <1>2 DEF readWakePrograms
<1>5. \A n \in DOMAIN c.skills : Single(n) /\ SkillOK(c.skills[n])
  BY <1>2, ReadSkillOK
<1>6. \A n \in DOMAIN c.programs : Single(n) /\ ProgramOK(c.programs[n])
  BY <1>2, ReadProgramOK
<1>7. ContractOK(c)
  BY <1>1, <1>2, <1>3, <1>4, <1>5, <1>6 DEF ContractOK
<1> QED BY <1>7 DEF c

\* A file written into a tree leaves a tree.
LEMMA FileKeepsTree ==
  ASSUME NEW tree, TreeOK(tree), NEW p, NEW x, IsSeq(p), p[1] = "wake-programs" => x # Absent
  PROVE  TreeOK(Over(tree, File(p, x)))
<1> DEFINE t == Over(tree, File(p, x))
<1>1. DOMAIN File(p, x) = {p} /\ File(p, x)[p] = x
  BY DEF File
<1>2. /\ DOMAIN t = DOMAIN tree \cup {p}
      /\ t = [q \in DOMAIN t |-> t[q]]
      /\ \A q \in DOMAIN tree \cup {p} : t[q] = IF q = p THEN x ELSE tree[q]
  BY <1>1 DEF Over
<1> HIDE DEF t
<1>3. TreeOK(t)
  BY <1>2 DEF TreeOK
<1> QED BY <1>3 DEF t

\* So does one removed.
LEMMA RemovalKeepsTree ==
  ASSUME NEW tree, TreeOK(tree), NEW p
  PROVE  TreeOK(Restrict(tree, DOMAIN tree \ {p}))
<1> DEFINE t == Restrict(tree, DOMAIN tree \ {p})
<1>1. t = [q \in DOMAIN tree \ {p} |-> tree[q]]
  BY DEF Restrict
<1> HIDE DEF t
<1>2. DOMAIN t = DOMAIN tree \ {p} /\ t = [q \in DOMAIN t |-> t[q]] /\ \A q \in DOMAIN t : t[q] = tree[q]
  BY <1>1
<1>3. TreeOK(t)
  BY <1>2 DEF TreeOK
<1> QED BY <1>3 DEF t

\* A skill and a program are named by one segment, and a companion has a path that is
\* not the body's. (The schema of an edit asks for neither; see PinReads.)
PlainNames ==
    /\ \A n \in SkillNames \cup ProgramNames : Single(n)
    /\ \A f \in Companions : IsSeq(f) /\ Len(f) >= 1 /\ f # Body

\* What is pinned was written from what the edits asked for, and that contract gives
\* every file a path of its own; what an agent has changed on its desk is any tree.
TreeIInv ==
    /\ ContractOK(wanted)
    /\ pinnedTree = serializeRoleTree(wanted)
    /\ checkout = [open |-> checkout.open, files |-> checkout.files]
    /\ checkout.open => TreeOK(checkout.files)

\* The paths an agent writes are lists.
LEMMA AgentPaths ==
  ASSUME PlainNames, NEW p \in Paths
  PROVE  IsSeq(p)
<1>1. ASSUME NEW n \in SkillNames, NEW f \in Companions \cup {Body} PROVE IsSeq(SkillFile(n, f))
  <2>1. PICK x : n = <<x>>
    BY DEF PlainNames, Single
  <2>2. IsSeq(f)
    BY ShortPaths DEF PlainNames
  <2> QED BY <2>1, <2>2, SkillPath
<1>2. ASSUME NEW n \in ProgramNames, NEW f PROVE IsSeq(ProgramFile(n, f))
  <2>1. PICK x : n = <<x>>
    BY DEF PlainNames, Single
  <2> QED BY <2>1, ProgramPath
<1>3. IsSeq(Prompt)
  BY ShortPaths
<1> QED BY <1>1, <1>2, <1>3 DEF Paths

\* A field of a contract takes any value its schema lets it have, where the file
\* names of its triggers differ.
LEMMA FieldKeepsContract ==
  ASSUME PlainNames, NEW c, ContractOK(c), NEW field \in DOMAIN RoleEditRequest,
         NEW v \in RoleEditRequest[field], slugsDiffer([c EXCEPT ![field] = v].triggers)
  PROVE  ContractOK([c EXCEPT ![field] = v])
<1> DEFINE d == [c EXCEPT ![field] = v]
<1>0. c = [prompt |-> c.prompt, skills |-> c.skills, programs |-> c.programs, triggers |-> c.triggers]
  BY DEF ContractOK
<1>2. field \in {"prompt", "skills", "programs", "triggers"}
  BY DEF RoleEditRequest
<1>1. d = [prompt |-> d.prompt, skills |-> d.skills, programs |-> d.programs, triggers |-> d.triggers]
  <2>1. PICK a1, a2, a3, a4 : c = [prompt |-> a1, skills |-> a2, programs |-> a3, triggers |-> a4]
    BY <1>0
  <2>2. d = [[prompt |-> a1, skills |-> a2, programs |-> a3, triggers |-> a4] EXCEPT ![field] = v]
    BY <2>1
  <2> HIDE DEF d
  <2> QED BY <1>2, <2>2
<1>3. /\ d.skills = IF field = "skills" THEN v ELSE c.skills
      /\ d.programs = IF field = "programs" THEN v ELSE c.programs
  BY <1>0, <1>2
<1>4. slugsDiffer(d.triggers)
  OBVIOUS
<1> HIDE DEF d
<1>5. d.skills = [n \in DOMAIN d.skills |-> d.skills[n]]
      /\ \A n \in DOMAIN d.skills : Single(n) /\ SkillOK(d.skills[n])
  <2>1. CASE field = "skills"
    <3>1. v \in Subfunctions(SkillNames, Skill)
      BY <2>1 DEF RoleEditRequest
    <3>2. PICK D \in SUBSET SkillNames : v \in [D -> Skill]
      BY <3>1 DEF Subfunctions
    <3>3. ASSUME NEW n \in D PROVE Single(n) /\ SkillOK(v[n])
      <4> DEFINE s == v[n]
      <4>1. s \in Skill
        BY <3>2
      <4> HIDE DEF s
      <4>2. s = [body |-> s.body, files |-> s.files] /\ s.files \in Subfunctions(Companions, Contents)
        BY <4>1 DEF Skill
      <4>3. PICK F \in SUBSET Companions : s.files \in [F -> Contents]
        BY <4>2 DEF Subfunctions
      <4>4. DOMAIN s.files = F /\ s.files = [f \in DOMAIN s.files |-> s.files[f]]
        BY <4>3
      <4>5. SkillOK(s)
        BY <4>2, <4>4 DEF SkillOK, PlainNames
      <4> QED BY <4>5 DEF s, PlainNames
    <3> QED BY <1>3, <2>1, <3>2, <3>3
  <2>2. CASE field # "skills"
    BY <1>3, <2>2 DEF ContractOK
  <2> QED BY <2>1, <2>2
<1>6. d.programs = [n \in DOMAIN d.programs |-> d.programs[n]]
      /\ \A n \in DOMAIN d.programs : Single(n) /\ ProgramOK(d.programs[n])
  <2>1. CASE field = "programs"
    <3>1. v \in Subfunctions(ProgramNames, Program)
      BY <2>1 DEF RoleEditRequest
    <3>2. PICK D \in SUBSET ProgramNames : v \in [D -> Program]
      BY <3>1 DEF Subfunctions
    <3>3. ASSUME NEW n \in D PROVE Single(n) /\ ProgramOK(v[n])
      <4> DEFINE s == v[n]
      <4>1. s \in Program
        BY <3>2
      <4> HIDE DEF s
      <4>2. s = [system |-> s.system, user |-> s.user] /\ s.system \in Contents
        BY <4>1 DEF Program
      <4>3. ProgramOK(s)
        BY <4>2, NullIsNoContent DEF ProgramOK
      <4> QED BY <4>3 DEF s, PlainNames
    <3> QED BY <1>3, <2>1, <3>2, <3>3
  <2>2. CASE field # "programs"
    BY <1>3, <2>2 DEF ContractOK
  <2> QED BY <2>1, <2>2
<1>7. ContractOK(d)
  BY <1>1, <1>4, <1>5, <1>6 DEF ContractOK
<1> QED BY <1>7 DEF d

\* Every edit, of a field, or of a checkout that is committed, keeps the invariant.
LEMMA TreeStep ==
  ASSUME PlainNames, TreeIInv, [TreeNext]_treeVars
  PROVE  TreeIInv'
<1>0. readable(pinnedTree) /\ deserializeRoleTree(pinnedTree) = wanted /\ TreeOK(pinnedTree)
  BY RoundTrip DEF TreeIInv
<1>1. ASSUME NEW field \in DOMAIN RoleEditRequest, PatchRole(field) PROVE TreeIInv'
  <2>1. PICK v \in RoleEditRequest[field] : FinalizeContract([deserializeRoleTree(pinnedTree) EXCEPT ![field] = v])
    BY <1>1 DEF PatchRole
  <2>2. PICK c : c = wanted
    OBVIOUS
  <2>3. FinalizeContract([c EXCEPT ![field] = v]) /\ ContractOK(c)
    BY <1>0, <2>1, <2>2 DEF TreeIInv
  <2>4. PICK d : d = [c EXCEPT ![field] = v]
    OBVIOUS
  <2>5. slugsDiffer(d.triggers) /\ pinnedTree' = serializeRoleTree(d) /\ wanted' = d
    BY <2>3, <2>4 DEF FinalizeContract, commitTree
  <2>6. ContractOK(d)
    BY <2>3, <2>4, <2>5, FieldKeepsContract
  <2>7. checkout' = checkout
    BY <1>1 DEF PatchRole
  <2> QED BY <2>5, <2>6, <2>7 DEF TreeIInv
<1>2. ASSUME OpenWorkingCopy PROVE TreeIInv'
  <2>1. pinnedTree' = pinnedTree /\ wanted' = wanted
        /\ checkout'.open = TRUE /\ checkout'.files = pinnedTree
        /\ checkout' = [open |-> checkout'.open, files |-> checkout'.files]
    BY <1>2 DEF OpenWorkingCopy
  <2> QED BY <1>0, <2>1 DEF TreeIInv
<1>3. ASSUME WriteFile PROVE TreeIInv'
  <2>0. PICK files : files = checkout.files
    OBVIOUS
  <2>1. TreeOK(files) /\ checkout = [open |-> TRUE, files |-> files] /\ checkout.open
    BY <1>3, <2>0 DEF TreeIInv, WriteFile
  <2>2. \E f : TreeOK(f) /\ checkout' = [checkout EXCEPT !.files = f]
    <3>1. ASSUME NEW p \in Paths, NEW x \in Contents PROVE TreeOK(Over(files, File(p, x)))
      BY <2>1, <3>1, AgentPaths, FileKeepsTree, NullIsNoContent
    <3>2. ASSUME NEW t, NEW s PROVE TreeOK(Over(files, File(TriggerFile(Slug[s]), t)))
      <4>1. IsSeq(TriggerFile(Slug[s])) /\ TriggerFile(Slug[s])[1] # "wake-programs"
        BY ShortPaths
      <4> QED BY <2>1, <4>1, FileKeepsTree
    <3>3. ASSUME NEW p PROVE TreeOK(Restrict(files, DOMAIN files \ {p}))
      BY <2>1, RemovalKeepsTree
    <3>4. \/ \E p \in Paths, x \in Contents : checkout' = [checkout EXCEPT !.files = Over(files, File(p, x))]
          \/ \E t, s \in Wakes : checkout' = [checkout EXCEPT !.files = Over(files, File(TriggerFile(Slug[s]), t))]
          \/ \E p \in DOMAIN files : checkout' = [checkout EXCEPT !.files = Restrict(files, DOMAIN files \ {p})]
      BY <1>3, <2>0 DEF WriteFile
    <3> QED BY <3>1, <3>2, <3>3, <3>4
  <2>3. PICK f : TreeOK(f) /\ checkout' = [checkout EXCEPT !.files = f]
    BY <2>2
  <2>4. checkout'.files = f /\ checkout' = [open |-> checkout'.open, files |-> checkout'.files]
    BY <2>1, <2>3
  <2>5. pinnedTree' = pinnedTree /\ wanted' = wanted
    BY <1>3 DEF WriteFile
  <2> QED BY <2>3, <2>4, <2>5 DEF TreeIInv
<1>4. ASSUME CommitWorkingCopy PROVE TreeIInv'
  <2>1. PICK t : t = checkout.files
    OBVIOUS
  <2>2. PICK c : c = deserializeRoleTree(t)
    OBVIOUS
  <2>3. TreeOK(t) /\ slugsDiffer(c.triggers) /\ pinnedTree' = serializeRoleTree(c) /\ wanted' = c
    BY <1>4, <2>1, <2>2 DEF CommitWorkingCopy, FinalizeContract, commitTree, TreeIInv
  <2>4. c.triggers = readTriggers(t)
    BY <2>2 DEF deserializeRoleTree
  <2>5. ContractOK(c)
    BY <2>2, <2>3, <2>4, ReadOK
  <2>6. ~checkout'.open /\ checkout' = [open |-> checkout'.open, files |-> checkout'.files]
    BY <1>4 DEF CommitWorkingCopy, Closed
  <2> QED BY <2>3, <2>5, <2>6 DEF TreeIInv
<1>5. ASSUME DiscardWorkingCopy PROVE TreeIInv'
  BY <1>5 DEF DiscardWorkingCopy, Closed, TreeIInv
<1>6. ASSUME UNCHANGED treeVars PROVE TreeIInv'
  BY <1>6 DEF treeVars, TreeIInv
<1> QED BY <1>1, <1>2, <1>3, <1>4, <1>5, <1>6 DEF TreeNext

\* After any number of edits, of fields by the operator and of files by an agent, what
\* the role is pinned to can be read, and reads as what the accepted edits asked for:
\* no field an edit left alone changes, and nothing of an earlier commit comes back
\* (serializeRoleTree, deserializeRoleTree, finalizeContract).
THEOREM RoleFilesReadBack ==
  ASSUME PlainNames
  PROVE  TreeSpec => []RoleReads
<1>1. TreeInit => TreeIInv
  <2> SUFFICES ASSUME TreeInit PROVE TreeIInv
    OBVIOUS
  <2>1. PICK x \in Contents : wanted = [prompt |-> x, skills |-> <<>>, programs |-> <<>>, triggers |-> {}]
    BY DEF TreeInit
  <2> DEFINE c == [prompt |-> x, skills |-> <<>>, programs |-> <<>>, triggers |-> {}]
  <2>2. ContractOK(c)
    <3>1. DOMAIN c.skills = {} /\ DOMAIN c.programs = {}
      OBVIOUS
    <3>2. c.skills = [n \in DOMAIN c.skills |-> c.skills[n]] /\ c.programs = [n \in DOMAIN c.programs |-> c.programs[n]]
      BY <3>1
    <3> QED BY <3>1, <3>2 DEF ContractOK, slugsDiffer
  <2>3. checkout = Closed /\ pinnedTree = serializeRoleTree(wanted)
    BY DEF TreeInit
  <2> HIDE DEF c
  <2> QED BY <2>1, <2>2, <2>3 DEF TreeIInv, Closed, c
<1>2. TreeIInv /\ [TreeNext]_treeVars => TreeIInv'
  BY TreeStep
<1>3. TreeIInv => RoleReads
  BY RoundTrip DEF TreeIInv, RoleReads
<1> QED BY <1>1, <1>2, <1>3, PTL DEF TreeSpec

-----------------------------------------------------------------------------
(* Where a role comes from (RoleLineage).                                  *)

\* What holds of a number when it holds of the smaller ones holds of each.
LEMMA Everywhere == ASSUME NEW n \in Nat, NEW S,
                           \A k \in 0 .. n : (\A j \in 0 .. n : j < k => j \in S) => k \in S
                    PROVE  \A k \in 0 .. n : k \in S
<1> DEFINE R == OpToRel(<, Nat)
           T == {k \in 0 .. n : k \notin S}
<1>1. \A x, y \in Nat : y < x => <<y, x>> \in R
  BY DEF OpToRel
<1>2. IsWellFoundedOn(R, Nat)
  BY NatLessThanWellFounded
<1>3. T \subseteq Nat
  OBVIOUS
<1> SUFFICES ASSUME T # {} PROVE FALSE
  OBVIOUS
<1> HIDE DEF R
<1>4. PICK m \in T : \A y \in T : ~(<<y, m>> \in R)
  <2> HIDE DEF T
  <2> QED BY <1>2, <1>3, WFMin
<1>5. \A j \in 0 .. n : j < m => j \in S
  BY <1>1, <1>3, <1>4
<1> QED BY <1>4, <1>5

\* A graph of commits in which each has one parent, an earlier one, and the first has none.
Tree(p) ==
  /\ p \in Seq(Nat) /\ Len(p) >= 1
  /\ p[1] = 0
  /\ \A c \in 2 .. Len(p) : p[c] \in 1 .. c - 1

\* What Reach computes, for any graph.
Ups(p, up) == up = [d \in 0 .. Len(p) |-> IF d = 0 THEN {} ELSE {d} \cup up[p[d]]]

ReachIn(p, c) == (CHOOSE up : Ups(p, up))[c]

\* The commits reachable in the graph of the module.
LEMMA ReachIs == \A c : Reach(c) = ReachIn(parent, c)
BY DEF Reach, ReachIn, Ups

\* Reach is well defined: the commits reachable from one are those in every set that has it
\* and with a commit its parent.
LEMMA ReachIsDefined == ASSUME NEW p, Tree(p) PROVE Ups(p, CHOOSE up : Ups(p, up))
<1> DEFINE Whole(X) == \A k \in X : k \in 1 .. Len(p) /\ (k # 1 => p[k] \in X)
           up == [d \in 0 .. Len(p) |-> {e \in 1 .. Len(p) :
                    d # 0 /\ \A X \in SUBSET (1 .. Len(p)) : Whole(X) /\ d \in X => e \in X}]
<1>1. \A d \in 0 .. Len(p) : up[d] = IF d = 0 THEN {} ELSE {d} \cup up[p[d]]
  <2> SUFFICES ASSUME NEW d \in 0 .. Len(p)
               PROVE  up[d] = IF d = 0 THEN {} ELSE {d} \cup up[p[d]]
    OBVIOUS
  <2>1. CASE d = 0
    BY <2>1
  <2>2. CASE d = 1
    <3>1. p[d] = 0 /\ Len(p) \in Nat /\ Len(p) >= 1
      BY <2>2 DEF Tree
    <3>2. up[0] = {}
      BY <3>1
    <3>3. Whole({1})
      BY <3>1
    <3>4. up[d] = {e \in 1 .. Len(p) :
                     d # 0 /\ \A X \in SUBSET (1 .. Len(p)) : Whole(X) /\ d \in X => e \in X}
      OBVIOUS
    <3> HIDE DEF up, Whole
    <3>5. up[d] = {1}
      <4>1. \A e \in up[d] : e = 1
        BY <2>2, <3>1, <3>3, <3>4
      <4>2. 1 \in up[d]
        BY <2>2, <3>1, <3>4
      <4> QED BY <4>1, <4>2
    <3> QED BY <2>2, <3>1, <3>2, <3>5
  <2>3. CASE d \in 2 .. Len(p)
    <3>1. p[d] \in 1 .. d - 1 /\ Len(p) \in Nat
      BY <2>3 DEF Tree
    <3>2. p[d] \in 1 .. Len(p) /\ d # 1 /\ d # 0 /\ p[d] # 0
      BY <2>3, <3>1
    <3>3. up[d] = {e \in 1 .. Len(p) :
                     d # 0 /\ \A X \in SUBSET (1 .. Len(p)) : Whole(X) /\ d \in X => e \in X}
      OBVIOUS
    <3>4. up[p[d]] = {e \in 1 .. Len(p) :
                     p[d] # 0 /\ \A X \in SUBSET (1 .. Len(p)) : Whole(X) /\ p[d] \in X => e \in X}
      BY <3>2
    <3>5. \A X : Whole(X) => \A k \in X : k # 1 => p[k] \in X
      OBVIOUS
    <3>6. \A X : Whole(X) /\ p[d] \in X => Whole(X \cup {d})
      BY <3>2
    <3> HIDE DEF up, Whole
    <3>7. \A e \in up[d] : e = d \/ e \in up[p[d]]
      <4> SUFFICES ASSUME NEW e \in up[d], e # d PROVE e \in up[p[d]]
        OBVIOUS
      <4>1. e \in 1 .. Len(p)
        BY <3>3
      <4>2. ASSUME NEW X \in SUBSET (1 .. Len(p)), Whole(X), p[d] \in X PROVE e \in X
        <5>1. Whole(X \cup {d}) /\ X \cup {d} \in SUBSET (1 .. Len(p)) /\ d \in X \cup {d}
          BY <2>3, <3>6, <4>2, <3>1
        <5>2. e \in X \cup {d}
          BY <3>3, <5>1
        <5> QED BY <5>2
      <4> QED BY <3>2, <3>4, <4>1, <4>2
    <3>8. d \in up[d]
      BY <2>3, <3>1, <3>2, <3>3
    <3>9. \A e \in up[p[d]] : e \in up[d]
      BY <3>2, <3>3, <3>4, <3>5
    <3> QED BY <3>2, <3>7, <3>8, <3>9
  <2>4. Len(p) \in Nat /\ Len(p) >= 1
    BY DEF Tree
  <2>5. d = 0 \/ d = 1 \/ d \in 2 .. Len(p)
    BY <2>4
  <2> HIDE DEF up
  <2> QED BY <2>1, <2>2, <2>3, <2>5
<1>2. up = [d \in 0 .. Len(p) |-> up[d]]
  OBVIOUS
<1> HIDE DEF up
<1>3. up = [d \in 0 .. Len(p) |-> IF d = 0 THEN {} ELSE {d} \cup up[p[d]]]
  BY <1>1, <1>2
<1> QED BY <1>3 DEF Ups

\* A commit reaches itself and what its parent reaches.
LEMMA ReachStep == ASSUME NEW p, Tree(p)
                   PROVE  /\ ReachIn(p, 0) = {}
                          /\ ReachIn(p, 1) = {1}
                          /\ \A c \in 2 .. Len(p) : ReachIn(p, c) = {c} \cup ReachIn(p, p[c])
<1> DEFINE f == CHOOSE up : Ups(p, up)
<1>1. Ups(p, f)
  BY ReachIsDefined
<1>2. \A c : ReachIn(p, c) = f[c]
  BY DEF ReachIn
<1>3. Len(p) \in Nat /\ Len(p) >= 1 /\ p[1] = 0
  BY DEF Tree
<1> HIDE DEF f
<1>4. f = [d \in 0 .. Len(p) |-> IF d = 0 THEN {} ELSE {d} \cup f[p[d]]]
  BY <1>1 DEF Ups
<1>5. \A d \in 0 .. Len(p) : f[d] = IF d = 0 THEN {} ELSE {d} \cup f[p[d]]
  <2> DEFINE g == [d \in 0 .. Len(p) |-> IF d = 0 THEN {} ELSE {d} \cup f[p[d]]]
  <2>1. \A d \in 0 .. Len(p) : g[d] = IF d = 0 THEN {} ELSE {d} \cup f[p[d]]
    OBVIOUS
  <2>2. f = g
    BY <1>4
  <2> HIDE DEF g
  <2> QED BY <2>1, <2>2
<1>6. f[0] = {}
  <2>1. 0 \in 0 .. Len(p)
    BY <1>3
  <2> QED BY <1>5, <2>1
<1>7. f[1] = {1}
  <2>1. 1 \in 0 .. Len(p) /\ 1 # 0
    BY <1>3
  <2>2. f[1] = {1} \cup f[p[1]]
    BY <1>5, <2>1
  <2> QED BY <1>3, <1>6, <2>2
<1>8. \A c \in 2 .. Len(p) : f[c] = {c} \cup f[p[c]]
  <2> SUFFICES ASSUME NEW c \in 2 .. Len(p) PROVE f[c] = {c} \cup f[p[c]]
    OBVIOUS
  <2>1. c \in 0 .. Len(p) /\ c # 0
    BY <1>3
  <2> QED BY <1>5, <2>1
<1> QED BY <1>2, <1>6, <1>7, <1>8

\* What a commit reaches: itself, the first one, no later one, and what those reach.
LEMMA ReachForms ==
  ASSUME NEW p, Tree(p)
  PROVE  /\ \A c \in 1 .. Len(p) : ReachIn(p, c) \subseteq 1 .. c
         /\ \A c \in 1 .. Len(p) : c \in ReachIn(p, c) /\ 1 \in ReachIn(p, c)
<1>1. Len(p) \in Nat /\ Len(p) >= 1 /\ \A c \in 2 .. Len(p) : p[c] \in 1 .. c - 1
  BY DEF Tree
<1>2. /\ ReachIn(p, 1) = {1}
      /\ \A c \in 2 .. Len(p) : ReachIn(p, c) = {c} \cup ReachIn(p, p[c])
  BY ReachStep
<1> DEFINE S == {c \in 0 .. Len(p) : c # 0 => /\ ReachIn(p, c) \subseteq 1 .. c
                                             /\ c \in ReachIn(p, c) /\ 1 \in ReachIn(p, c)}
<1>3. \A k \in 0 .. Len(p) : (\A j \in 0 .. Len(p) : j < k => j \in S) => k \in S
  <2> SUFFICES ASSUME NEW k \in 0 .. Len(p), \A j \in 0 .. Len(p) : j < k => j \in S
               PROVE  k \in S
    OBVIOUS
  <2>1. CASE k = 0
    BY <2>1
  <2>2. CASE k = 1
    BY <1>2, <2>2
  <2>3. CASE k \in 2 .. Len(p)
    <3>1. p[k] \in 0 .. Len(p) /\ p[k] < k /\ p[k] # 0 /\ k # 0 /\ p[k] \in Nat
      BY <1>1, <2>3
    <3>2. ReachIn(p, p[k]) \subseteq 1 .. p[k] /\ 1 \in ReachIn(p, p[k])
      BY <3>1
    <3>3. ReachIn(p, k) = {k} \cup ReachIn(p, p[k])
      BY <1>2, <2>3
    <3>4. 1 .. p[k] \subseteq 1 .. k /\ k \in 1 .. k
      BY <2>3, <3>1
    <3> QED BY <3>2, <3>3, <3>4
  <2> QED BY <1>1, <2>1, <2>2, <2>3
<1>4. \A k \in 0 .. Len(p) : k \in S
  <2> HIDE DEF S
  <2> QED BY <1>1, <1>3, Everywhere
<1>5. \A c \in 1 .. Len(p) : c \in 0 .. Len(p) /\ c # 0
  OBVIOUS
<1> QED BY <1>4, <1>5

\* The commits that one reaches lie on one line: of two of them the later reaches the other,
\* and what that reaches in turn.
LEMMA ReachLine ==
  ASSUME NEW p, Tree(p), NEW c \in 1 .. Len(p), NEW d \in ReachIn(p, c)
  PROVE  /\ ReachIn(p, d) \subseteq ReachIn(p, c)
         /\ \A e \in ReachIn(p, c) : e <= d => e \in ReachIn(p, d)
<1>1. Len(p) \in Nat /\ Len(p) >= 1 /\ \A k \in 2 .. Len(p) : p[k] \in 1 .. k - 1
  BY DEF Tree
<1>2. /\ ReachIn(p, 1) = {1}
      /\ \A k \in 2 .. Len(p) : ReachIn(p, k) = {k} \cup ReachIn(p, p[k])
  BY ReachStep
<1>3. \A k \in 1 .. Len(p) : ReachIn(p, k) \subseteq 1 .. k
  BY ReachForms
<1> DEFINE Lined(k) == d \in ReachIn(p, k) =>
                         /\ ReachIn(p, d) \subseteq ReachIn(p, k)
                         /\ \A e \in ReachIn(p, k) : e <= d => e \in ReachIn(p, d)
           S == {k \in 0 .. Len(p) : k # 0 => Lined(k)}
<1>4. \A k \in 0 .. Len(p) : (\A j \in 0 .. Len(p) : j < k => j \in S) => k \in S
  <2> SUFFICES ASSUME NEW k \in 0 .. Len(p), \A j \in 0 .. Len(p) : j < k => j \in S
               PROVE  k \in S
    OBVIOUS
  <2>1. CASE k = 0
    BY <2>1
  <2>2. CASE k = 1
    <3>1. d \in ReachIn(p, k) => d = 1
      BY <1>2, <2>2
    <3> QED BY <2>2, <3>1
  <2>3. CASE k \in 2 .. Len(p)
    <3>1. p[k] \in 0 .. Len(p) /\ p[k] < k /\ p[k] # 0 /\ k # 0 /\ p[k] \in 1 .. Len(p)
      BY <1>1, <2>3
    <3>2. Lined(p[k])
      BY <3>1
    <3>3. ReachIn(p, k) = {k} \cup ReachIn(p, p[k])
      BY <1>2, <2>3
    <3>4. ReachIn(p, p[k]) \subseteq 1 .. p[k]
      BY <1>3, <3>1
    <3>5. Lined(k)
      <4> SUFFICES ASSUME d \in ReachIn(p, k) PROVE Lined(k)
        OBVIOUS
      <4>1. CASE d = k
        BY <4>1
      <4>2. CASE d # k
        <5>1. d \in ReachIn(p, p[k])
          BY <3>3, <4>2
        <5>2. d < k /\ d \in Int
          BY <3>1, <3>4, <5>1
        <5>3. \A e \in ReachIn(p, k) : e <= d => e \in ReachIn(p, p[k])
          BY <2>3, <3>3, <5>2
        <5> QED BY <3>2, <3>3, <5>1, <5>3
      <4> QED BY <4>1, <4>2
    <3> QED BY <3>5
  <2> QED BY <1>1, <2>1, <2>2, <2>3
<1>5. \A k \in 0 .. Len(p) : k \in S
  <2> HIDE DEF S
  <2> QED BY <1>1, <1>4, Everywhere
<1>6. c \in 0 .. Len(p) /\ c # 0
  OBVIOUS
<1> QED BY <1>5, <1>6

\* A commit reaches the same after further ones.
LEMMA ReachStays ==
  ASSUME NEW p, NEW q, Tree(p), Tree(q), Len(p) <= Len(q), \A k \in 1 .. Len(p) : q[k] = p[k]
  PROVE  \A c \in 1 .. Len(p) : ReachIn(q, c) = ReachIn(p, c)
<1>1. /\ Len(p) \in Nat /\ Len(p) >= 1 /\ Len(q) \in Nat
      /\ \A k \in 2 .. Len(p) : p[k] \in 1 .. k - 1
  BY DEF Tree
<1>2. /\ ReachIn(p, 1) = {1} /\ ReachIn(q, 1) = {1}
      /\ \A k \in 2 .. Len(p) : ReachIn(p, k) = {k} \cup ReachIn(p, p[k])
      /\ \A k \in 2 .. Len(q) : ReachIn(q, k) = {k} \cup ReachIn(q, q[k])
  BY ReachStep
<1> DEFINE S == {k \in 0 .. Len(p) : k # 0 => ReachIn(q, k) = ReachIn(p, k)}
<1>3. \A k \in 0 .. Len(p) : (\A j \in 0 .. Len(p) : j < k => j \in S) => k \in S
  <2> SUFFICES ASSUME NEW k \in 0 .. Len(p), \A j \in 0 .. Len(p) : j < k => j \in S
               PROVE  k \in S
    OBVIOUS
  <2>1. CASE k = 0
    BY <2>1
  <2>2. CASE k = 1
    BY <1>2, <2>2
  <2>3. CASE k \in 2 .. Len(p)
    <3>1. p[k] \in 0 .. Len(p) /\ p[k] < k /\ p[k] # 0 /\ k \in 2 .. Len(q) /\ q[k] = p[k]
      BY <1>1, <2>3
    <3>2. ReachIn(q, p[k]) = ReachIn(p, p[k])
      BY <3>1
    <3>3. ReachIn(p, k) = {k} \cup ReachIn(p, p[k]) /\ ReachIn(q, k) = {k} \cup ReachIn(q, p[k])
      BY <1>2, <2>3, <3>1
    <3> QED BY <3>2, <3>3
  <2> QED BY <1>1, <2>1, <2>2, <2>3
<1>4. \A k \in 0 .. Len(p) : k \in S
  <2> HIDE DEF S
  <2> QED BY <1>1, <1>3, Everywhere
<1>5. \A c \in 1 .. Len(p) : c \in 0 .. Len(p) /\ c # 0
  OBVIOUS
<1> QED BY <1>4, <1>5

\* What git answers for a merge base, for any graph.
Both(p, a, b) == ReachIn(p, a) \cap ReachIn(p, b)

BaseIn(p, a, b) == CHOOSE c \in Both(p, a, b) : \A d \in Both(p, a, b) : d \in ReachIn(p, c)

\* The merge bases of the module.
LEMMA MergeBaseIs == \A a, b : computeMergeBase(a, b) = BaseIn(parent, a, b)
BY ReachIs DEF computeMergeBase, isAncestor, BaseIn, Both

\* Two commits have a merge base: they have the first one in common, and of the commits they
\* have in common the latest reaches the others.
LEMMA MergeBaseReached ==
  ASSUME NEW p, Tree(p), NEW a \in 1 .. Len(p), NEW b \in 1 .. Len(p)
  PROVE  /\ BaseIn(p, a, b) \in Both(p, a, b)
         /\ \A d \in Both(p, a, b) : d \in ReachIn(p, BaseIn(p, a, b))
<1>1. Len(p) \in Nat
  BY DEF Tree
<1>2. Both(p, a, b) \in SUBSET (1 .. Len(p)) /\ 1 \in Both(p, a, b)
  <2>1. ReachIn(p, a) \subseteq 1 .. a /\ 1 \in ReachIn(p, a) /\ 1 \in ReachIn(p, b)
    BY ReachForms
  <2>2. 1 .. a \subseteq 1 .. Len(p)
    BY <1>1
  <2> QED BY <2>1, <2>2 DEF Both
<1>3. PICK c \in Both(p, a, b) : \A d \in Both(p, a, b) : d <= c
  BY <1>1, <1>2, GreatestIn
<1>4. \A d \in Both(p, a, b) : d \in ReachIn(p, c)
  <2>1. c \in ReachIn(p, a) /\ \A d \in Both(p, a, b) : d \in ReachIn(p, a)
    BY DEF Both
  <2>2. \A d \in ReachIn(p, a) : d <= c => d \in ReachIn(p, c)
    BY <2>1, ReachLine
  <2> QED BY <1>3, <2>1, <2>2
<1> QED BY <1>4 DEF BaseIn

\* Where the lines of the shipped roles start, and the line that a commit is on.
Rooted(p) == /\ Tree(p) /\ Len(p) >= Len(EngineRoles) + 1
             /\ \A k \in DOMAIN EngineRoles : p[k + 1] = 1

OnLine(p, s, c) == c \in 1 .. Len(p) /\ NumberOf(s) + 1 \in ReachIn(p, c)

\* The shipped roles are numbered in the order of the map.
LEMMA Numbers ==
  /\ Len(EngineRoles) \in Nat /\ DOMAIN EngineRoles = 1 .. Len(EngineRoles)
  /\ \A s \in ShippedNames : NumberOf(s) \in DOMAIN EngineRoles /\ EngineRoles[NumberOf(s)] = s
<1>1. Len(EngineRoles) \in Nat /\ DOMAIN EngineRoles = 1 .. Len(EngineRoles)
  BY EnginesAssumption
<1>2. ASSUME NEW s \in ShippedNames
      PROVE  NumberOf(s) \in DOMAIN EngineRoles /\ EngineRoles[NumberOf(s)] = s
  <2>1. \E k \in DOMAIN EngineRoles : EngineRoles[k] = s
    BY DEF ShippedNames
  <2> QED BY <2>1 DEF NumberOf
<1> QED BY <1>1, <1>2

\* A root reaches the base layer besides itself.
LEMMA RootReaches ==
  ASSUME NEW p, Rooted(p), NEW s \in ShippedNames
  PROVE  /\ NumberOf(s) + 1 \in 2 .. Len(p)
         /\ ReachIn(p, NumberOf(s) + 1) = {1, NumberOf(s) + 1}
<1> DEFINE k == NumberOf(s)
<1>1. k \in 1 .. Len(EngineRoles) /\ Len(EngineRoles) \in Nat
  BY Numbers
<1>2. Len(p) \in Nat /\ Len(p) >= Len(EngineRoles) + 1 /\ p[k + 1] = 1 /\ Tree(p)
  BY Numbers DEF Rooted, Tree
<1>3. k + 1 \in 2 .. Len(p)
  BY <1>1, <1>2
<1>4. ReachIn(p, k + 1) = {k + 1} \cup ReachIn(p, p[k + 1]) /\ ReachIn(p, 1) = {1}
  BY <1>2, <1>3, ReachStep
<1> QED BY <1>2, <1>3, <1>4

\* Two commits on lines of their own have only the base layer in common: a later one that both
\* reach is on both lines, and one of two roots would reach the other.
LEMMA LinesApart ==
  ASSUME NEW p, Rooted(p), NEW s \in ShippedNames, NEW o \in ShippedNames, s # o,
         NEW a, NEW b, OnLine(p, o, a), OnLine(p, s, b)
  PROVE  BaseIn(p, a, b) = 1
<1> DEFINE ro == NumberOf(o) + 1
           rs == NumberOf(s) + 1
<1>1. Tree(p) /\ Len(p) \in Nat /\ a \in 1 .. Len(p) /\ b \in 1 .. Len(p)
  BY DEF OnLine, Rooted, Tree
<1>2. ro \in ReachIn(p, a) /\ rs \in ReachIn(p, b)
  BY DEF OnLine
<1>3. /\ ro \in 2 .. Len(p) /\ ReachIn(p, ro) = {1, ro}
      /\ rs \in 2 .. Len(p) /\ ReachIn(p, rs) = {1, rs}
  BY RootReaches
<1>4. ro # rs
  <2>1. NumberOf(o) # NumberOf(s) /\ NumberOf(o) \in Nat /\ NumberOf(s) \in Nat
    BY Numbers
  <2> QED BY <2>1
<1> HIDE DEF ro, rs
<1>5. ASSUME NEW d \in Both(p, a, b) PROVE d = 1
  <2>1. d \in ReachIn(p, a) /\ d \in ReachIn(p, b) /\ d \in 1 .. Len(p)
    <3>1. d \in ReachIn(p, a) /\ d \in ReachIn(p, b)
      BY DEF Both
    <3>2. ReachIn(p, a) \subseteq 1 .. a
      BY <1>1, ReachForms
    <3> QED BY <1>1, <3>1, <3>2
  <2> SUFFICES ASSUME d # 1 PROVE FALSE
    OBVIOUS
  <2>2. ro \in ReachIn(p, d)
    <3>1. CASE ro <= d
      BY <1>1, <1>2, <2>1, <3>1, ReachLine
    <3>2. CASE d <= ro
      <4>1. d \in ReachIn(p, ro)
        BY <1>1, <1>2, <2>1, <3>2, ReachLine
      <4>2. d = ro
        BY <1>3, <4>1
      <4> QED BY <1>3, <4>2
    <3> QED BY <1>3, <2>1, <3>1, <3>2
  <2>3. rs \in ReachIn(p, d)
    <3>1. CASE rs <= d
      BY <1>1, <1>2, <2>1, <3>1, ReachLine
    <3>2. CASE d <= rs
      <4>1. d \in ReachIn(p, rs)
        BY <1>1, <1>2, <2>1, <3>2, ReachLine
      <4>2. d = rs
        BY <1>3, <4>1
      <4> QED BY <1>3, <4>2
    <3> QED BY <1>3, <2>1, <3>1, <3>2
  <2>4. ro <= rs => ro \in ReachIn(p, rs)
    BY <1>1, <2>1, <2>2, <2>3, ReachLine
  <2>5. rs <= ro => rs \in ReachIn(p, ro)
    BY <1>1, <2>1, <2>2, <2>3, ReachLine
  <2>6. ro <= rs \/ rs <= ro
    BY <1>3
  <2> QED BY <1>3, <1>4, <2>4, <2>5, <2>6
<1> QED BY <1>1, <1>5, MergeBaseReached

\* Two commits on one line have a later one in common than the base layer.
LEMMA LineShared ==
  ASSUME NEW p, Rooted(p), NEW o \in ShippedNames, NEW a, NEW b, OnLine(p, o, a), OnLine(p, o, b)
  PROVE  BaseIn(p, a, b) # 1 /\ 1 \in ReachIn(p, BaseIn(p, a, b))
<1> DEFINE ro == NumberOf(o) + 1
<1>1. Tree(p) /\ a \in 1 .. Len(p) /\ b \in 1 .. Len(p)
  BY DEF OnLine, Rooted
<1>2. ro \in Both(p, a, b)
  BY DEF OnLine, Both
<1>3. ro \in 2 .. Len(p)
  BY RootReaches
<1>4. 1 \in Both(p, a, b)
  BY <1>1, ReachForms DEF Both
<1>5. ReachIn(p, 1) = {1}
  BY <1>1, ReachStep
<1> HIDE DEF ro
<1>6. ro \in ReachIn(p, BaseIn(p, a, b)) /\ 1 \in ReachIn(p, BaseIn(p, a, b))
  BY <1>1, <1>2, <1>4, MergeBaseReached
<1>7. BaseIn(p, a, b) # 1
  <2> SUFFICES ASSUME BaseIn(p, a, b) = 1 PROVE FALSE
    OBVIOUS
  <2>1. ro = 1
    BY <1>5, <1>6
  <2> QED BY <1>3, <2>1
<1> QED BY <1>6, <1>7

\* A commit and the base layer have only the base layer in common.
LEMMA BaseShared ==
  ASSUME NEW p, Tree(p), NEW a \in 1 .. Len(p)
  PROVE  BaseIn(p, a, 1) = 1
<1>1. Len(p) \in Nat /\ Len(p) >= 1 /\ 1 \in 1 .. Len(p)
  BY DEF Tree
<1>2. ReachIn(p, 1) = {1}
  BY ReachStep
<1>3. Both(p, a, 1) \subseteq {1}
  BY <1>2 DEF Both
<1> QED BY <1>1, <1>3, MergeBaseReached

\* The graph is rooted, every tip and every pin is on the line of the shipped role it comes from.
LineIInv ==
  /\ Rooted(parent)
  /\ tips \in [ShippedNames -> Nat] /\ fetched \in [ShippedNames -> Nat]
  /\ pins \in [LineNames -> Nat] /\ DOMAIN origin = LineNames
  /\ \A s \in ShippedNames : OnLine(parent, s, tips[s]) /\ OnLine(parent, s, fetched[s])
  /\ \A n \in LineNames : pins[n] # 0 => origin[n] \in ShippedNames /\ OnLine(parent, origin[n], pins[n])

\* A root is on its own line.
LEMMA LineInitHolds == LineInit => LineIInv
<1> SUFFICES ASSUME LineInit PROVE LineIInv
  OBVIOUS
<1> DEFINE N == Len(EngineRoles)
<1>1. N \in Nat /\ DOMAIN EngineRoles = 1 .. N /\ ShippedNames \subseteq LineNames
  <2>1. \A k \in DOMAIN EngineRoles : EngineRoles[k] \in LineNames
    BY EnginesAssumption
  <2> QED BY Numbers, <2>1 DEF ShippedNames
<1>2. parent = [c \in 1 .. N + 1 |-> IF c = 1 THEN 0 ELSE 1]
  BY DEF LineInit
<1> HIDE DEF N
<1>3. parent \in Seq(Nat) /\ Len(parent) = N + 1
  <2>1. \A c \in 1 .. N + 1 : (IF c = 1 THEN 0 ELSE 1) \in Nat
    OBVIOUS
  <2>2. N + 1 \in Nat
    BY <1>1
  <2> QED BY <1>2, <2>1, <2>2
<1>4. parent[1] = 0 /\ \A c \in 2 .. N + 1 : parent[c] = 1
  BY <1>1, <1>2
<1>5. Rooted(parent)
  <2>1. Tree(parent)
    BY <1>1, <1>3, <1>4 DEF Tree
  <2>2. \A k \in 1 .. N : k + 1 \in 2 .. N + 1
    BY <1>1
  <2>3. \A k \in 1 .. N : parent[k + 1] = 1
    BY <1>4, <2>2
  <2> QED BY <1>1, <1>3, <2>1, <2>3 DEF Rooted, N
<1>6. \A s \in ShippedNames : OnLine(parent, s, NumberOf(s) + 1)
  <2> SUFFICES ASSUME NEW s \in ShippedNames PROVE OnLine(parent, s, NumberOf(s) + 1)
    OBVIOUS
  <2>1. NumberOf(s) + 1 \in 2 .. Len(parent) /\ NumberOf(s) + 1 \in ReachIn(parent, NumberOf(s) + 1)
    BY <1>5, RootReaches
  <2> QED BY <2>1 DEF OnLine
<1>7. \A s \in ShippedNames : NumberOf(s) + 1 \in Nat
  BY Numbers
<1>8. /\ tips = [s \in ShippedNames |-> NumberOf(s) + 1] /\ fetched = tips
      /\ pins = [n \in LineNames |-> IF n \in ShippedNames THEN tips[n] ELSE 0]
      /\ origin = [n \in LineNames |-> n]
  BY DEF LineInit
<1>9. tips \in [ShippedNames -> Nat]
  BY <1>7, <1>8
<1>10. pins \in [LineNames -> Nat]
  BY <1>8, <1>9
<1>11. \A s \in ShippedNames : OnLine(parent, s, tips[s]) /\ OnLine(parent, s, fetched[s])
  BY <1>6, <1>8
<1>12. \A n \in LineNames :
         pins[n] # 0 => origin[n] \in ShippedNames /\ OnLine(parent, origin[n], pins[n])
  BY <1>8, <1>11
<1> QED BY <1>5, <1>8, <1>9, <1>10, <1>11, <1>12 DEF LineIInv

\* A new commit leaves every line where it was and goes on with the one of its parent.
LEMMA CommitGrows ==
  ASSUME LineIInv, NEW c \in 1 .. Len(parent), Commits(c)
  PROVE  /\ Rooted(parent') /\ Len(parent') \in Nat
         /\ \A s \in ShippedNames : \A d : OnLine(parent, s, d) => OnLine(parent', s, d)
         /\ \A s \in ShippedNames : OnLine(parent, s, c) => OnLine(parent', s, Len(parent'))
<1> DEFINE L == Len(parent)
<1>1. parent' = Append(parent, c) /\ Rooted(parent) /\ Tree(parent)
  BY DEF Commits, LineIInv, Rooted
<1>2. /\ parent \in Seq(Nat) /\ L \in Nat /\ L >= 1 /\ parent[1] = 0 /\ c \in Nat
      /\ \A k \in 2 .. L : parent[k] \in 1 .. k - 1
  BY <1>1 DEF Tree
<1>3. PICK q : q = Append(parent, c)
  OBVIOUS
<1>4. q \in Seq(Nat) /\ Len(q) = L + 1 /\ q[L + 1] = c /\ \A k \in 1 .. L : q[k] = parent[k]
  BY <1>2, <1>3
<1>5. L = Len(parent)
  OBVIOUS
<1> HIDE DEF L
<1>6. Tree(q)
  <2>1. \A k \in 2 .. L + 1 : q[k] \in 1 .. k - 1
    <3> SUFFICES ASSUME NEW k \in 2 .. L + 1 PROVE q[k] \in 1 .. k - 1
      OBVIOUS
    <3>1. CASE k = L + 1
      <4>1. q[k] = c /\ c \in 1 .. L /\ k - 1 = L
        BY <1>2, <1>4, <1>5, <3>1
      <4> QED BY <4>1
    <3>2. CASE k \in 2 .. L
      <4>1. parent[k] \in 1 .. k - 1 /\ k \in 1 .. L
        BY <1>2, <3>2
      <4> QED BY <1>4, <4>1
    <3>3. k = L + 1 \/ k \in 2 .. L
      BY <1>2
    <3> QED BY <3>1, <3>2, <3>3
  <2>2. q[1] = 0
    BY <1>2, <1>4
  <2> QED BY <1>2, <1>4, <2>1, <2>2 DEF Tree
<1>7. Rooted(q)
  <2>1. L >= Len(EngineRoles) + 1 /\ \A k \in DOMAIN EngineRoles : parent[k + 1] = 1
    BY <1>1, <1>5 DEF Rooted
  <2>2. \A k \in DOMAIN EngineRoles : k + 1 \in 1 .. L
    BY <1>2, <2>1, Numbers
  <2>3. \A k \in DOMAIN EngineRoles : q[k + 1] = 1
    BY <1>4, <2>1, <2>2
  <2>4. Len(q) >= Len(EngineRoles) + 1
    BY <1>2, <1>4, <2>1, Numbers
  <2> QED BY <1>6, <2>3, <2>4 DEF Rooted
<1>8. \A d \in 1 .. L : ReachIn(q, d) = ReachIn(parent, d)
  <2>1. Len(parent) <= Len(q) /\ \A k \in 1 .. Len(parent) : q[k] = parent[k]
    BY <1>2, <1>4, <1>5
  <2> QED BY <1>1, <1>5, <1>6, <2>1, ReachStays
<1>9. ReachIn(q, L + 1) = {L + 1} \cup ReachIn(q, c)
  <2>1. L + 1 \in 2 .. Len(q)
    BY <1>2, <1>4
  <2> QED BY <1>4, <1>6, <2>1, ReachStep
<1>10. \A s \in ShippedNames : \A d : OnLine(parent, s, d) => OnLine(q, s, d)
  BY <1>2, <1>4, <1>5, <1>8 DEF OnLine
<1>11. \A s \in ShippedNames : OnLine(parent, s, c) => OnLine(q, s, Len(q))
  BY <1>2, <1>4, <1>5, <1>8, <1>9 DEF OnLine
<1>12. parent' = q
  BY <1>1, <1>3
<1>13. Len(q) \in Nat
  BY <1>4
<1> QED BY <1>7, <1>10, <1>11, <1>12, <1>13

\* Every step keeps the lines.
LEMMA LineIInvSteps == LineIInv /\ [LineNext]_lineVars => LineIInv'
<1> SUFFICES ASSUME LineIInv, [LineNext]_lineVars PROVE LineIInv'
  OBVIOUS
<1>1. /\ Rooted(parent)
      /\ tips \in [ShippedNames -> Nat] /\ fetched \in [ShippedNames -> Nat]
      /\ pins \in [LineNames -> Nat] /\ DOMAIN origin = LineNames
  BY DEF LineIInv
<1>2. \A s \in ShippedNames : OnLine(parent, s, tips[s]) /\ OnLine(parent, s, fetched[s])
  BY DEF LineIInv
<1>3. \A n \in LineNames :
        pins[n] # 0 => origin[n] \in ShippedNames /\ OnLine(parent, origin[n], pins[n])
  BY DEF LineIInv
<1>4. \A s, d : OnLine(parent, s, d) => d \in 1 .. Len(parent)
  BY DEF OnLine
<1>5. ASSUME NEW s \in ShippedNames, Release(s) PROVE LineIInv'
  <2>1. PICK c : c = tips[s]
    OBVIOUS
  <2>2. Commits(c) /\ c \in 1 .. Len(parent) /\ OnLine(parent, s, c)
    BY <1>2, <1>4, <1>5, <2>1 DEF Release
  <2>3. PICK q : q = parent'
    OBVIOUS
  <2>4. /\ Rooted(q) /\ Len(q) \in Nat
        /\ \A r \in ShippedNames : \A d : OnLine(parent, r, d) => OnLine(q, r, d)
        /\ OnLine(q, s, Len(q))
    BY <2>2, <2>3, CommitGrows
  <2>5. tips' = [tips EXCEPT ![s] = Len(q)] /\ fetched' = fetched /\ pins' = pins /\ origin' = origin
    BY <1>5, <2>3 DEF Release
  <2>6. tips' \in [ShippedNames -> Nat]
    BY <1>1, <2>4, <2>5
  <2>7. \A r \in ShippedNames : OnLine(q, r, tips'[r]) /\ OnLine(q, r, fetched'[r])
    BY <1>1, <1>2, <2>4, <2>5
  <2>8. \A n \in LineNames :
          pins'[n] # 0 => origin'[n] \in ShippedNames /\ OnLine(q, origin'[n], pins'[n])
    BY <1>3, <2>4, <2>5
  <2> QED BY <1>1, <2>3, <2>4, <2>5, <2>6, <2>7, <2>8 DEF LineIInv
<1>6. CASE LineFetched
  <2>1. fetched' = tips /\ parent' = parent /\ tips' = tips /\ pins' = pins /\ origin' = origin
    BY <1>6 DEF LineFetched
  <2> QED BY <1>1, <1>2, <1>3, <2>1 DEF LineIInv
<1>7. ASSUME NEW n \in LineNames, LineEdited(n) PROVE LineIInv'
  <2>1. PICK c : c = pins[n]
    OBVIOUS
  <2>2. /\ Commits(c) /\ c \in 1 .. Len(parent)
        /\ origin[n] \in ShippedNames /\ OnLine(parent, origin[n], c)
    BY <1>3, <1>4, <1>7, <2>1 DEF LineEdited
  <2>3. PICK q : q = parent'
    OBVIOUS
  <2>4. /\ Rooted(q) /\ Len(q) \in Nat
        /\ \A r \in ShippedNames : \A d : OnLine(parent, r, d) => OnLine(q, r, d)
        /\ \A r \in ShippedNames : OnLine(parent, r, c) => OnLine(q, r, Len(q))
    BY <2>2, <2>3, CommitGrows
  <2>5. pins' = [pins EXCEPT ![n] = Len(q)] /\ fetched' = fetched /\ tips' = tips /\ origin' = origin
    BY <1>7, <2>3 DEF LineEdited
  <2>6. pins' \in [LineNames -> Nat]
    BY <1>1, <2>4, <2>5
  <2>7. \A r \in ShippedNames : OnLine(q, r, tips'[r]) /\ OnLine(q, r, fetched'[r])
    BY <1>2, <2>4, <2>5
  <2>8. \A r \in LineNames :
          pins'[r] # 0 => origin'[r] \in ShippedNames /\ OnLine(q, origin'[r], pins'[r])
    BY <1>1, <1>3, <2>2, <2>4, <2>5
  <2> QED BY <1>1, <2>3, <2>4, <2>5, <2>6, <2>7, <2>8 DEF LineIInv
<1>8. ASSUME NEW n \in LineNames, LineDeleted(n) PROVE LineIInv'
  <2>1. /\ pins' = [pins EXCEPT ![n] = 0] /\ parent' = parent /\ fetched' = fetched
        /\ tips' = tips /\ origin' = origin
    BY <1>8 DEF LineDeleted
  <2>2. pins' \in [LineNames -> Nat]
    BY <1>1, <2>1
  <2>3. \A r \in LineNames :
          pins'[r] # 0 => origin'[r] \in ShippedNames /\ OnLine(parent, origin'[r], pins'[r])
    BY <1>1, <1>3, <2>1
  <2> QED BY <1>1, <1>2, <2>1, <2>2, <2>3 DEF LineIInv
<1>9. ASSUME NEW n \in LineNames, NEW new \in LineNames, LineForked(n, new) PROVE LineIInv'
  <2>1. PICK c : c = pins[n]
    OBVIOUS
  <2>2. PICK o : o = origin[n]
    OBVIOUS
  <2>3. Commits(c) /\ c \in 1 .. Len(parent) /\ o \in ShippedNames /\ OnLine(parent, o, c)
    BY <1>3, <1>4, <1>9, <2>1, <2>2 DEF LineForked
  <2>4. PICK q : q = parent'
    OBVIOUS
  <2>5. /\ Rooted(q) /\ Len(q) \in Nat
        /\ \A r \in ShippedNames : \A d : OnLine(parent, r, d) => OnLine(q, r, d)
        /\ OnLine(q, o, Len(q))
    BY <2>3, <2>4, CommitGrows
  <2>6. /\ pins' = [pins EXCEPT ![new] = Len(q)] /\ fetched' = fetched /\ tips' = tips
        /\ origin' = [origin EXCEPT ![new] = o]
    BY <1>9, <2>2, <2>4 DEF LineForked
  <2>7. pins' \in [LineNames -> Nat] /\ DOMAIN origin' = LineNames
    BY <1>1, <2>5, <2>6
  <2>8. \A r \in ShippedNames : OnLine(q, r, tips'[r]) /\ OnLine(q, r, fetched'[r])
    BY <1>2, <2>5, <2>6
  <2>9. \A r \in LineNames :
          pins'[r] # 0 => origin'[r] \in ShippedNames /\ OnLine(q, origin'[r], pins'[r])
    BY <1>1, <1>3, <2>3, <2>5, <2>6
  <2> QED BY <1>1, <2>4, <2>5, <2>6, <2>7, <2>8, <2>9 DEF LineIInv
<1>10. CASE UNCHANGED lineVars
  BY <1>1, <1>2, <1>3, <1>10 DEF LineIInv, lineVars
<1> QED BY <1>5, <1>6, <1>7, <1>8, <1>9, <1>10 DEF LineNext

\* Of the refs that are tried one after another, the best is the base until the default of the
\* origin has been tried, and that from then on.
LEMMA OriginIsBest ==
  ASSUME LineIInv, NEW n \in LineNames \ ShippedNames, pins[n] # 0
  PROVE  resolveUpstreamRef(n) = origin[n]
<1> DEFINE o == origin[n]
           N == Len(EngineRoles)
           a == pins[n]
           M(ref) == BaseIn(parent, a, shaOf(ref))
           found(k) == \E j \in 1 .. k : EngineRoles[j] = o
           g == [k \in 0 .. N |-> IF found(k) THEN o ELSE BaseRef]
           Best(f) == f = [k \in 0 .. N |->
                             IF k = 0 THEN BaseRef
                             ELSE IF better(a, EngineRoles[k], f[k - 1]) THEN EngineRoles[k] ELSE f[k - 1]]
<1>1. o \in ShippedNames /\ OnLine(parent, o, a) /\ Rooted(parent) /\ Tree(parent)
  BY DEF LineIInv, Rooted
<1>2. N \in Nat /\ DOMAIN EngineRoles = 1 .. N /\ \A k \in 1 .. N : EngineRoles[k] \in ShippedNames
  BY Numbers DEF ShippedNames
<1>3. \A s \in ShippedNames : OnLine(parent, s, fetched[s])
  BY DEF LineIInv
<1>4. a \in 1 .. Len(parent)
  BY <1>1 DEF OnLine
<1>5. M(BaseRef) = 1
  BY <1>1, <1>4, BaseShared DEF shaOf
<1>6. \A s \in ShippedNames : s # BaseRef /\ shaOf(s) = fetched[s]
  BY EnginesAssumption DEF shaOf
<1>7. \A s \in ShippedNames : s # o => M(s) = 1
  BY <1>1, <1>3, <1>6, LinesApart
<1>8. M(o) # 1 /\ 1 \in ReachIn(parent, M(o))
  BY <1>1, <1>3, <1>6, LineShared
<1>9. ReachIn(parent, 1) = {1}
  BY <1>1, ReachStep
<1>10. \A ref, bst : better(a, ref, bst) <=> M(ref) # M(bst) /\ M(bst) \in ReachIn(parent, M(ref))
  BY MergeBaseIs, ReachIs DEF better, isAncestor
<1> HIDE DEF M
<1>11. /\ ~better(a, o, o) /\ better(a, o, BaseRef)
       /\ \A s \in ShippedNames : s # o => ~better(a, s, o) /\ ~better(a, s, BaseRef)
  BY <1>5, <1>7, <1>8, <1>9, <1>10
<1>12. \A k \in 0 .. N : g[k] = IF found(k) THEN o ELSE BaseRef
  OBVIOUS
<1>13. \A k \in 1 .. N : found(k) <=> found(k - 1) \/ EngineRoles[k] = o
  <2> SUFFICES ASSUME NEW k \in 1 .. N PROVE found(k) <=> found(k - 1) \/ EngineRoles[k] = o
    OBVIOUS
  <2>1. k \in Nat /\ \A j : j \in 1 .. k <=> j \in 1 .. k - 1 \/ j = k
    BY <1>2
  <2> QED BY <2>1
<1>14. ~found(0)
  OBVIOUS
<1>15. found(N)
  BY <1>1, <1>2 DEF ShippedNames
<1>16. g = [k \in 0 .. N |-> g[k]]
  OBVIOUS
<1> HIDE DEF g, found, o, a, N
<1>17. \A k \in 0 .. N :
         g[k] = IF k = 0 THEN BaseRef
                ELSE IF better(a, EngineRoles[k], g[k - 1]) THEN EngineRoles[k] ELSE g[k - 1]
  <2> SUFFICES ASSUME NEW k \in 0 .. N
               PROVE g[k] = IF k = 0 THEN BaseRef
                            ELSE IF better(a, EngineRoles[k], g[k - 1]) THEN EngineRoles[k] ELSE g[k - 1]
    OBVIOUS
  <2>1. CASE k = 0
    BY <1>12, <1>14, <2>1
  <2>2. CASE k # 0
    <3>1. k \in 1 .. N /\ k - 1 \in 0 .. N /\ EngineRoles[k] \in ShippedNames
      BY <1>2, <2>2
    <3>2. found(k) <=> found(k - 1) \/ EngineRoles[k] = o
      BY <1>13, <3>1
    <3>3. CASE found(k - 1)
      BY <1>11, <1>12, <2>2, <3>1, <3>2, <3>3
    <3>4. CASE ~found(k - 1)
      BY <1>11, <1>12, <2>2, <3>1, <3>2, <3>4
    <3> QED BY <3>3, <3>4
  <2> QED BY <2>1, <2>2
<1>18. Best(g)
  BY <1>16, <1>17
<1> DEFINE f == CHOOSE h : Best(h)
<1>19. Best(f)
  <2> HIDE DEF Best
  <2> QED BY <1>18
<1>20. resolveUpstreamRef(n) = f[N]
  BY DEF resolveUpstreamRef, N, a
<1> HIDE DEF f
<1>21. \A k \in 0 .. N :
         f[k] = IF k = 0 THEN BaseRef
                ELSE IF better(a, EngineRoles[k], f[k - 1]) THEN EngineRoles[k] ELSE f[k - 1]
  <2> DEFINE h == [k \in 0 .. N |->
                     IF k = 0 THEN BaseRef
                     ELSE IF better(a, EngineRoles[k], f[k - 1]) THEN EngineRoles[k] ELSE f[k - 1]]
  <2>1. \A k \in 0 .. N :
          h[k] = IF k = 0 THEN BaseRef
                 ELSE IF better(a, EngineRoles[k], f[k - 1]) THEN EngineRoles[k] ELSE f[k - 1]
    OBVIOUS
  <2>2. f = h
    BY <1>19
  <2> HIDE DEF h
  <2> QED BY <2>1, <2>2
<1> HIDE DEF Best
<1> DEFINE S == {k \in 0 .. N : f[k] = g[k]}
<1>22. \A k \in 0 .. N : (\A j \in 0 .. N : j < k => j \in S) => k \in S
  <2> SUFFICES ASSUME NEW k \in 0 .. N, \A j \in 0 .. N : j < k => j \in S
               PROVE  k \in S
    OBVIOUS
  <2>1. CASE k = 0
    BY <1>17, <1>21, <2>1
  <2>2. CASE k # 0
    <3>1. k - 1 \in 0 .. N /\ k - 1 < k
      BY <1>2, <2>2
    <3>2. f[k - 1] = g[k - 1]
      BY <3>1
    <3> QED BY <1>17, <1>21, <2>2, <3>2
  <2> QED BY <2>1, <2>2
<1>23. \A k \in 0 .. N : k \in S
  <2> HIDE DEF S
  <2> QED BY <1>2, <1>22, Everywhere
<1>24. N \in 0 .. N
  BY <1>2
<1>25. f[N] = g[N] /\ g[N] = o
  BY <1>12, <1>15, <1>23, <1>24
<1> QED BY <1>20, <1>25 DEF o

\* A role the workspace invented is compared with the shipped role it was forked from
\* (resolveUpstreamRef in role-upstream-diff.ts): no verb of the server joins two lines, so a
\* pin shares more than the base layer with one default only, however many roles the engine
\* ships and whatever was released, fetched, edited, forked and deleted.
THEOREM ComparedWithTheOrigin == LineSpec => []ComparedWithOrigin
<1>1. LineIInv => ComparedWithOrigin
  BY OriginIsBest DEF ComparedWithOrigin
<1> QED BY <1>1, LineInitHolds, LineIInvSteps, PTL DEF LineSpec
=============================================================================
