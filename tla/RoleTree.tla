------------------------------ MODULE RoleTree ------------------------------
(***************************************************************************)
(* The files a role is kept in (role-tree.ts), and the edits that rewrite  *)
(* them: a patch of a field, which reads the pinned tree, changes the      *)
(* contract and commits all of it again, and a checkout, whose files an    *)
(* agent changes one at a time.  A path is the sequence of its segments; a *)
(* name that holds a slash is a name of several segments.  Where the edits *)
(* are committed, and what they may override, is in RoleRepo.              *)
(*                                                                         *)
(* A contract keeps its skills, programs and triggers by name, which is    *)
(* the form canonicalize() gives them when no name is repeated.  The files *)
(* kept whole (framing, prompt, hooks, lists, seeds) are one: `prompt`.    *)
(* Habits, kept one to a file as triggers are, are left out.               *)
(***************************************************************************)
EXTENDS Naturals, Sequences, FiniteSets, Functions

CONSTANTS
    SkillNames, ProgramNames,  \* sequences of segments
    Companions,                \* paths of the other files of a skill
    Contents,                  \* what a file may hold
    Wakes,                     \* the triggers
    Slug,                      \* the file name of a trigger
    Absent,                    \* null
    MaxRoleEdits               \* bound: edits of the role and of its files

ASSUME NullIsNoContent == Absent \notin Contents

VARIABLES
    pinnedTree,  \* the files of the commit the role is pinned to
    checkout,    \* the desk: whether a checkout is open, and its files
    wanted,      \* what the accepted edits have asked the role to be
    roleEdits

treeVars == <<pinnedTree, checkout, wanted, roleEdits>>

Subfunctions(D, R) == UNION {[d -> R] : d \in SUBSET D}

Skill == [body: Contents, files: Subfunctions(Companions, Contents)]
Program == [system: Contents, user: Contents \cup {Absent}]

-----------------------------------------------------------------------------
(* Serializing.                                                            *)

Prompt == <<"system-prompt.md">>
SkillFile(name, file) == <<"skills">> \o name \o file
Body == <<"SKILL.md">>
ProgramFile(name, file) == <<"wake-programs">> \o name \o <<file>>
TriggerFile(slug) == <<"triggers", slug>>

File(path, content) == [p \in {path} |-> content]

\* The files of F, each entry overriding those before it.
Over(f, g) == [p \in DOMAIN f \cup DOMAIN g |-> IF p \in DOMAIN g THEN g[p] ELSE f[p]]

\* A companion is set after the body: one named SKILL.md replaces it.
SkillFiles(name, skill) ==
    Over(File(SkillFile(name, Body), skill.body),
         [p \in {SkillFile(name, f) : f \in DOMAIN skill.files} |->
            skill.files[CHOOSE f \in DOMAIN skill.files : SkillFile(name, f) = p]])

ProgramFiles(name, program) ==
    IF program.user = Absent THEN File(ProgramFile(name, "system.md"), program.system)
    ELSE Over(File(ProgramFile(name, "system.md"), program.system),
              File(ProgramFile(name, "user.md"), program.user))

slugsDiffer(triggers) == \A s, t \in triggers : s # t => Slug[s] # Slug[t]

serializeRoleTree(c) ==
    LET parts == {File(Prompt, c.prompt)}
                   \cup {SkillFiles(n, c.skills[n]) : n \in DOMAIN c.skills}
                   \cup {ProgramFiles(n, c.programs[n]) : n \in DOMAIN c.programs}
                   \cup {File(TriggerFile(Slug[t]), t) : t \in c.triggers}
    IN  [p \in UNION {DOMAIN f : f \in parts} |-> (CHOOSE f \in parts : p \in DOMAIN f)[p]]

-----------------------------------------------------------------------------
(* Reading back.                                                           *)

\* The paths under skills/ that name a skill and one of its files.
skillPaths(tree) == {p \in DOMAIN tree : Len(p) >= 3 /\ p[1] = "skills"}
Rest(p) == SubSeq(p, 3, Len(p))

\* Variant: companions are left in the tree and not read.
readSkillBodies(tree) ==
    LET bodied == {p \in skillPaths(tree) : Rest(p) = Body}
    IN  [name \in {<<p[2]>> : p \in bodied} |->
           [body |-> tree[SkillFile(name, Body)], files |-> <<>>]]

readSkills(tree) ==
    [name \in {<<p[2]>> : p \in skillPaths(tree)} |->
        LET files == {Rest(p) : p \in {q \in skillPaths(tree) : <<q[2]>> = name}}
        IN  [body |-> tree[SkillFile(name, Body)],
             files |-> [f \in files \ {Body} |-> tree[SkillFile(name, f)]]]]

\* A directory whose name is one segment and that has a system.md; other user.md
\* files are passed over.
readWakePrograms(tree) ==
    LET systems == {p \in DOMAIN tree : Len(p) = 3 /\ p[1] = "wake-programs" /\ p[3] = "system.md"}
        user(name) == ProgramFile(name, "user.md")
    IN  [name \in {<<p[2]>> : p \in systems} |->
           [system |-> tree[ProgramFile(name, "system.md")],
            user |-> IF user(name) \in DOMAIN tree THEN tree[user(name)] ELSE Absent]]

readTriggers(tree) == {tree[p] : p \in {q \in DOMAIN tree : Len(q) = 2 /\ q[1] = "triggers"}}

\* The required files are there, and no skill's directory lacks its SKILL.md.
readable(tree) ==
    /\ Prompt \in DOMAIN tree
    /\ \A p \in skillPaths(tree) : SkillFile(<<p[2]>>, Body) \in DOMAIN tree

deserializeRoleTree(tree) == [prompt |-> tree[Prompt],
                              skills |-> readSkills(tree),
                              programs |-> readWakePrograms(tree),
                              triggers |-> readTriggers(tree)]

-----------------------------------------------------------------------------
(* Edits.                                                                  *)

Closed == [open |-> FALSE, files |-> <<>>]

TreeInit ==
    /\ \E x \in Contents :
          wanted = [prompt |-> x, skills |-> <<>>, programs |-> <<>>, triggers |-> {}]
    /\ pinnedTree = serializeRoleTree(wanted)
    /\ checkout = Closed
    /\ roleEdits = 0

Edited == roleEdits < MaxRoleEdits /\ roleEdits' = roleEdits + 1

\* Variant: the new files are written over those of the parent commit.
commitTreeOver(tree) == pinnedTree' = Over(pinnedTree, tree)

\* The working tree is cleared first.
commitTree(tree) == pinnedTree' = tree

\* The shared tail of every edit.  What is based on an unreadable commit throws before
\* it commits, as do triggers of one file name.
FinalizeContract(c) ==
    /\ readable(pinnedTree)
    /\ slugsDiffer(c.triggers)
    /\ commitTree(serializeRoleTree(c))
    /\ wanted' = c

\* The values RoleEditRequestSchema lets a field have.
RoleEditRequest ==
    [prompt |-> Contents,
     skills |-> Subfunctions(SkillNames, Skill),
     programs |-> Subfunctions(ProgramNames, Program),
     triggers |-> SUBSET Wakes]

\* A one-shot edit, by the operator or by an agent whose desk has no checkout open.
PatchRole(field) ==
    /\ Edited
    /\ readable(pinnedTree)
    /\ \E v \in RoleEditRequest[field] :
          FinalizeContract([deserializeRoleTree(pinnedTree) EXCEPT ![field] = v])
    /\ UNCHANGED checkout

OpenWorkingCopy ==
    /\ ~checkout.open
    /\ checkout' = [open |-> TRUE, files |-> pinnedTree]
    /\ UNCHANGED <<pinnedTree, wanted, roleEdits>>

\* The agent writes or removes any one file.
Paths == {Prompt} \cup {SkillFile(n, f) : n \in SkillNames, f \in Companions \cup {Body}}
                  \cup {ProgramFile(n, f) : n \in ProgramNames, f \in {"system.md", "user.md"}}

WriteFile ==
    /\ Edited
    /\ checkout.open
    /\ LET files == checkout.files
           Saved(f) == checkout' = [checkout EXCEPT !.files = f]
       IN  \/ \E p \in Paths, x \in Contents : Saved(Over(files, File(p, x)))
           \/ \E t, s \in Wakes : Saved(Over(files, File(TriggerFile(Slug[s]), t)))
           \/ \E p \in DOMAIN files : Saved(Restrict(files, DOMAIN files \ {p}))
    /\ UNCHANGED <<pinnedTree, wanted>>

\* What can be read of the desk is committed, and the desk is cleared.
CommitWorkingCopy ==
    /\ checkout.open
    /\ readable(checkout.files)
    /\ FinalizeContract(deserializeRoleTree(checkout.files))
    /\ checkout' = Closed
    /\ UNCHANGED roleEdits

DiscardWorkingCopy ==
    /\ checkout.open
    /\ checkout' = Closed
    /\ UNCHANGED <<pinnedTree, wanted, roleEdits>>

TreeNext == \/ \E field \in DOMAIN RoleEditRequest : PatchRole(field)
            \/ OpenWorkingCopy \/ WriteFile \/ CommitWorkingCopy \/ DiscardWorkingCopy

TreeSpec == TreeInit /\ [][TreeNext]_treeVars

-----------------------------------------------------------------------------
\* After any number of edits the files of a role still read as what the accepted edits
\* asked for: the field an edit names has its new value, every other field the value it
\* had, and nothing of an earlier commit comes back.
RoleReads == readable(pinnedTree) /\ deserializeRoleTree(pinnedTree) = wanted

\* A role can be read at its pin, whatever edits were accepted.
PinReads == readable(pinnedTree)
=============================================================================
