------------------------------- MODULE Layout -------------------------------
(***************************************************************************)
(* The panes and tabs of the browser's pages: what the user drags, opens   *)
(* and closes, what the server's layout events change, and what is kept in *)
(* the browser's local storage.  The tree of splits is the sequence of its *)
(* panes in the order in which the code walks it: every question asked of  *)
(* the tree is asked of its panes, and what a split adds (its direction    *)
(* and the sizes of its children) is left out.                             *)
(***************************************************************************)
EXTENDS Naturals, Sequences, FiniteSets, SequencesExt

CONSTANTS Workspaces, Chats,   \* workspaces and sessions
          Seat,                \* the workspace of a session
          Pages,               \* browser windows
          Kinds,               \* the views of which a page needs one: SINGLETON_VIEW_KINDS
          Nowhere,             \* no workspace, no session
          RingSize,            \* CLOSED_RING_SIZE
          MaxGestures, MaxPolls, MaxBooted  \* bounds

ASSUME RingBound == RingSize \in Nat

VARIABLES page,      \* the windows
          stored,    \* localStorage: the layout of a workspace's slug
          named,     \* localStorage: the layout saved under a name
          ring,      \* localStorage: the closed panes of a slug, newest first
          bus,       \* the server's layout events of a workspace
          born,      \* the sessions that exist
          gestures   \* what the user has done so far

layoutVars == <<page, stored, named, ring, bus, born, gestures>>

(***************************************************************************)
(* A view remembers, for the properties only, in which workspace it was    *)
(* opened (`at`).                                                          *)
(***************************************************************************)
View(what, w) == [what |-> what, at |-> w]
Panes(w, kinds) == [n \in DOMAIN kinds |->
    [id |-> n, views |-> <<View(kinds[n], w)>>, active |-> 1]]
defaultLayout(w) == Panes(w, <<"sessions", "whiteboard", "spawn">>)

findPane(tree, id) == {n \in DOMAIN tree : tree[n].id = id}
newPaneId(tree) == CHOOSE k \in 1 .. Len(tree) + 1 : findPane(tree, k) = {}
LowestOf(S) == CHOOSE n \in S : \A k \in S : n <= k
Clamped(k, vs) == IF k > Len(vs) THEN Len(vs) ELSE k

\* An index of 0 is a pane without an active tab.
Insert(pane, k, v) ==
    [pane EXCEPT !.views = InsertAt(@, Clamped(k, pane.views \o <<v>>), v),
                 !.active = Clamped(k, pane.views \o <<v>>)]
Append1(pane, v) == Insert(pane, Len(pane.views) + 1, v)

close_tab(pane, k) ==
    LET left == RemoveAt(pane.views, k)
    IN  [pane EXCEPT !.views = left,
                     !.active = IF pane.active = 0 /\ left # <<>> THEN 1
                                ELSE Clamped(pane.active, left)]

appendPane(tree, pane) == Append(tree, [pane EXCEPT !.id = newPaneId(tree)])
emptyPane == [id |-> 0, views |-> <<>>, active |-> 0]

\* Nothing closes the last pane.
closePane(tree, n) == IF Len(tree) = 1 THEN tree ELSE RemoveAt(tree, n)

\* A new pane beside the n-th one.
splitPane(tree, n, before, vs) ==
    InsertAt(tree, IF before THEN n ELSE n + 1,
             [id |-> newPaneId(tree), views |-> vs, active |-> IF vs = <<>> THEN 0 ELSE 1])

IsChat(v) == v.what \in Chats

\* Variant: the tab is put first.
openSessionTabFirst(tree, v, from) == [tree EXCEPT ![from] = Insert(@, 1, v)]

(* Where a session's tab goes: to the tab it has, to an empty pane, to a   *)
(* pane with another session, to the pane it was opened from.              *)
openSessionTab(tree, v, from) ==
    LET has == {n \in DOMAIN tree : \E k \in DOMAIN tree[n].views : tree[n].views[k].what = v.what}
        empty == {n \in DOMAIN tree : tree[n].views = <<>>}
        chats == {n \in DOMAIN tree : \E k \in DOMAIN tree[n].views : IsChat(tree[n].views[k])}
        to == LowestOf(IF empty # {} THEN empty ELSE IF chats # {} THEN chats ELSE {from})
    IN  IF has # {}
        THEN LET n == LowestOf(has)
             IN  [tree EXCEPT ![n].active =
                     LowestOf({k \in DOMAIN tree[n].views : tree[n].views[k].what = v.what})]
        ELSE [tree EXCEPT ![to] = Append1(@, v)]

\* What a session has become by the events, one after another.
Successor(what, events) ==
    LET after[k \in 0 .. Len(events)] ==
            IF k = 0 THEN what
            ELSE IF after[k - 1] = events[k].old THEN events[k].new ELSE after[k - 1]
    IN  after[Len(events)]

Swapped(v, events) == [v EXCEPT !.what = Successor(v.what, events)]

\* Each event is applied to each view by itself.
swapSessionTab(tree, events) ==
    [n \in DOMAIN tree |-> [tree[n] EXCEPT !.views =
        [k \in DOMAIN tree[n].views |-> Swapped(tree[n].views[k], events)]]]

(***************************************************************************)
(* A window.  Its path names a workspace and, maybe, a session; the layout *)
(* below it is mounted afresh for another workspace.                       *)
(***************************************************************************)
NoDrag == [kind |-> "none"]
firstPaneId == 1

hasMailboxFor(tree, s) ==
    \E n \in DOMAIN tree : \E k \in DOMAIN tree[n].views : tree[n].views[k].what = s

\* The deep link is pinned when the link changes or the provider is mounted.
Pinned(tree, w, s) ==
    IF s = Nowhere \/ hasMailboxFor(tree, s) THEN tree
    ELSE openSessionTab(tree, View(s, w), firstPaneId)

init(w) == IF stored[w] = <<>> THEN defaultLayout(w) ELSE stored[w]

\* Variant: the provider is not remounted for another slug.
MountedOnce(q, w) == [q EXCEPT !.space = w, !.cursor = 0, !.polls = <<>>]

Mounted(q, w) == [q EXCEPT !.space = w, !.tree = init(w), !.drag = NoDrag,
                           !.cursor = 0, !.polls = <<>>]

navigate(q, w, s) ==
    IF q.space = w /\ q.link = s THEN q
    ELSE LET r == IF q.space = w THEN q ELSE Mounted(q, w)
         IN  [r EXCEPT !.link = s, !.tree = Pinned(@, w, s)]

\* A pane shows the view its active index names; without one rendering throws.
Renders(tree) == \A n \in DOMAIN tree : tree[n].active \in 0 .. Len(tree[n].views)

(* A handler runs, the page renders, and its effect writes what it shows.  *)
Shows(p, q) ==
    /\ page' = [page EXCEPT ![p] = q]
    /\ stored' = [stored EXCEPT ![q.space] = IF Renders(q.tree) THEN q.tree ELSE @]

Dispatched(p, tree) == Shows(p, [page[p] EXCEPT !.tree = tree])

Gesture == gestures < MaxGestures /\ gestures' = gestures + 1

\* While a tab is dragged or placed, a click ends that and nothing else.
Free(p) == Renders(page[p].tree) /\ page[p].drag = NoDrag /\ Gesture

(***************************************************************************)
(* What the user does.                                                     *)
(***************************************************************************)
select_tab(p) ==
    /\ Free(p)
    /\ \E n \in DOMAIN page[p].tree : \E k \in DOMAIN page[p].tree[n].views :
          Dispatched(p, [page[p].tree EXCEPT ![n].active = k])
    /\ UNCHANGED <<named, ring, bus, born>>

\* The last tab of a pane that is closed, or a pane closed with tabs, goes to the ring.
Captured(w, pane) == [ring EXCEPT ![w] = SubSeq(<<pane>> \o @, 1, Clamped(RingSize, <<pane>> \o @))]

CloseTab(p) ==
    /\ Free(p)
    /\ \E n \in DOMAIN page[p].tree : \E k \in DOMAIN page[p].tree[n].views :
          LET pane == page[p].tree[n]
          IN  /\ Dispatched(p, [page[p].tree EXCEPT ![n] = close_tab(@, k)])
              /\ ring' = IF Len(pane.views) = 1 THEN Captured(page[p].space, pane) ELSE ring
    /\ UNCHANGED <<named, bus, born>>

\* The button is shown on a pane without an active tab, and not on the only pane.
ClosePane(p) ==
    /\ Free(p)
    /\ Len(page[p].tree) > 1
    /\ \E n \in DOMAIN page[p].tree :
          /\ page[p].tree[n].active = 0
          /\ Dispatched(p, closePane(page[p].tree, n))
          /\ ring' = IF page[p].tree[n].views # <<>> THEN Captured(page[p].space, page[p].tree[n])
                     ELSE ring
    /\ UNCHANGED <<named, bus, born>>

\* Add pane; the split buttons of a pane with tabs.
AddPane(p) ==
    /\ Free(p)
    /\ Dispatched(p, appendPane(page[p].tree, emptyPane))
    /\ UNCHANGED <<named, ring, bus, born>>

SplitButton(p) ==
    /\ Free(p)
    /\ \E n \in DOMAIN page[p].tree :
          /\ page[p].tree[n].views # <<>>
          /\ Dispatched(p, splitPane(page[p].tree, n, FALSE, <<>>))
    /\ UNCHANGED <<named, ring, bus, born>>

\* The quick adds of a pane without an active tab.
QuickAdd(p) ==
    /\ Free(p)
    /\ \E n \in DOMAIN page[p].tree, kind \in Kinds :
          /\ page[p].tree[n].active = 0
          /\ Dispatched(p, [page[p].tree EXCEPT ![n] = Append1(@, View(kind, page[p].space))])
    /\ UNCHANGED <<named, ring, bus, born>>

\* The layout menu.
onSave(p) ==
    /\ Free(p)
    /\ named' = [named EXCEPT ![page[p].space] = page[p].tree]
    /\ UNCHANGED <<page, stored, ring, bus, born>>

onLoad(p) ==
    /\ Free(p)
    /\ named[page[p].space] # <<>>
    /\ Dispatched(p, named[page[p].space])
    /\ UNCHANGED <<named, ring, bus, born>>

onReopen(p) ==
    /\ Free(p)
    /\ \E pane \in ToSet(ring[page[p].space]) : Dispatched(p, appendPane(page[p].tree, pane))
    /\ UNCHANGED <<named, ring, bus, born>>

onReopenKind(p) ==
    /\ Free(p)
    /\ \E kind \in Kinds :
          /\ ~hasMailboxFor(page[p].tree, kind)
          /\ Dispatched(p, appendPane(page[p].tree,
                 Append1(emptyPane, View(kind, page[p].space))))
    /\ UNCHANGED <<named, ring, bus, born>>

onReset(p) ==
    /\ Free(p)
    /\ Dispatched(p, defaultLayout(page[p].space))
    /\ UNCHANGED <<named, ring, bus, born>>

(***************************************************************************)
(* Tabs that move, and sessions that are placed.                           *)
(***************************************************************************)
OnDragStart(p) ==
    /\ Free(p)
    /\ \E n \in DOMAIN page[p].tree : \E k \in DOMAIN page[p].tree[n].views :
          page' = [page EXCEPT ![p].drag = [kind |-> "move", from |-> page[p].tree[n].id, index |-> k,
                                            held |-> page[p].tree[n].views[k]]]
    /\ UNCHANGED <<stored, named, ring, bus, born>>

\* Shown in a pane: the n-th one, when its active tab is of these kinds.
Showing(tree, n, kinds) ==
    tree[n].active \in DOMAIN tree[n].views /\ tree[n].views[tree[n].active].what \in kinds

openInPane(p) ==
    /\ Free(p)
    /\ \E n \in DOMAIN page[p].tree, s \in born :
          /\ Showing(page[p].tree, n, {"sessions", "whiteboard"})
          /\ Seat[s] = page[p].listed
          /\ page' = [page EXCEPT ![p].drag = [kind |-> "insert", held |-> View(s, page[p].space)]]
    /\ UNCHANGED <<stored, named, ring, bus, born>>

\* What the drag was given at its start is what it moves at its end.
Lifted(q) ==
    IF q.drag.kind = "insert" THEN q.tree
    ELSE [n \in DOMAIN q.tree |->
            IF q.tree[n].id = q.drag.from THEN close_tab(q.tree[n], q.drag.index) ELSE q.tree[n]]
Carried(q) ==
    IF q.drag.kind = "insert" THEN q.drag.held
    ELSE q.tree[CHOOSE n \in findPane(q.tree, q.drag.from) : TRUE].views[q.drag.index]

\* On a tab strip or the middle of a pane, or on an edge of it, which splits it.
OnDragEnd(p) ==
    /\ page[p].drag # NoDrag
    /\ \E n \in DOMAIN page[p].tree :
          LET q == page[p]
              left == Lifted(q)
          IN  \E tree \in {[left EXCEPT ![n] = Insert(@, k, Carried(q))] :
                               k \in 1 .. Len(q.tree[n].views) + 1}
                           \cup {splitPane(left, n, before, <<Carried(q)>>) : before \in BOOLEAN} :
                Shows(p, [q EXCEPT !.tree = tree, !.drag = NoDrag])
    /\ UNCHANGED <<named, ring, bus, born, gestures>>

Cancelled(p) ==
    /\ page[p].drag # NoDrag
    /\ page' = [page EXCEPT ![p].drag = NoDrag]
    /\ UNCHANGED <<stored, named, ring, bus, born, gestures>>

(***************************************************************************)
(* Sessions that are opened: in the list as it was last polled, which is   *)
(* that of the workspace before until the first poll after a switch; or as *)
(* the answer of a wake, a resume or a spawn, wherever the user is by then.*)
(***************************************************************************)
onSelect(p) ==
    /\ Free(p)
    /\ \E n \in DOMAIN page[p].tree, s \in born :
          /\ Showing(page[p].tree, n, {"sessions", "whiteboard"})
          /\ Seat[s] = page[p].listed
          /\ Dispatched(p, openSessionTab(page[p].tree, View(s, page[p].space), n))
    /\ UNCHANGED <<named, ring, bus, born>>

ListArrives(p) ==
    /\ page[p].listed # page[p].space
    /\ page' = [page EXCEPT ![p].listed = page[p].space]
    /\ UNCHANGED <<stored, named, ring, bus, born, gestures>>

\* The first pane with a session's tab, as the page was when the handler was made.
findPaneWith(tree) ==
    LET has == {n \in DOMAIN tree : \E k \in DOMAIN tree[n].views : IsChat(tree[n].views[k])}
    IN  IF has = {} THEN <<>>
        ELSE LET n == LowestOf(has)
             IN  <<tree[n].id, LowestOf({k \in DOMAIN tree[n].views : IsChat(tree[n].views[k])})>>

Calls(p) ==
    /\ Free(p)
    /\ page[p].call = <<>>
    /\ \E n \in DOMAIN page[p].tree :
          /\ Showing(page[p].tree, n, {"sessions", "whiteboard", "spawn"})
          /\ Showing(page[p].tree, n, {"sessions", "whiteboard"}) => page[p].listed # Nowhere
          /\ page' = [page EXCEPT ![p].call = <<
                [seat |-> IF Showing(page[p].tree, n, {"spawn"}) THEN page[p].space ELSE page[p].listed,
                 space |-> page[p].space,
                 hit |-> IF Showing(page[p].tree, n, {"whiteboard"}) THEN findPaneWith(page[p].tree)
                         ELSE <<>>]>>]
    /\ UNCHANGED <<stored, named, ring, bus, born>>

focusView(tree, hit) ==
    [n \in DOMAIN tree |-> IF hit # <<>> /\ tree[n].id = hit[1]
                           THEN [tree[n] EXCEPT !.active = hit[2]] ELSE tree[n]]

\* The page goes to the workspace of the click; there, a tab of before is focused first.
Answered(p) ==
    /\ page[p].call # <<>>
    /\ \E s \in Chats :
          LET call == Head(page[p].call)
              q == [page[p] EXCEPT !.call = <<>>,
                       !.tree = IF page[p].space = call.space THEN focusView(@, call.hit) ELSE @]
          IN  /\ Seat[s] = call.seat
              /\ s \notin born => Cardinality(born) < MaxBooted
              /\ born' = born \cup {s}
              /\ IF Renders(page[p].tree) /\ Renders(q.tree) THEN Shows(p, navigate(q, call.space, s))
                 ELSE Shows(p, q)
    /\ UNCHANGED <<named, ring, bus, gestures>>

\* A refused wake is reported, and its view focused all the same.
Failed(p) ==
    /\ page[p].call # <<>>
    /\ LET call == Head(page[p].call)
       IN  Shows(p, [page[p] EXCEPT !.call = <<>>,
               !.tree = IF page[p].space = call.space THEN focusView(@, call.hit) ELSE @])
    /\ UNCHANGED <<named, ring, bus, born, gestures>>

\* Another workspace's tab; reloading the window.
Visit(p) ==
    /\ Gesture
    /\ Renders(page[p].tree)
    /\ \E w \in Workspaces : Shows(p, navigate(page[p], w, Nowhere))
    /\ UNCHANGED <<named, ring, bus, born>>

Reload(p) ==
    /\ Gesture
    /\ LET q == [Mounted(page[p], page[p].space) EXCEPT !.call = <<>>, !.listed = Nowhere]
       IN  Shows(p, [q EXCEPT !.tree = Pinned(@, q.space, q.link)])
    /\ UNCHANGED <<named, ring, bus, born>>

(***************************************************************************)
(* Layout events.  A reply carries what was there when it was sent; a slow *)
(* one may be overtaken by the next tick's.                                *)
(***************************************************************************)
Cycled(w) ==
    /\ Cardinality(born) < MaxBooted
    /\ \E old \in born, new \in Chats \ born :
          /\ Seat[old] = w /\ Seat[new] = w
          /\ born' = born \cup {new}
          /\ bus' = [bus EXCEPT ![w] = Append(@, [old |-> old, new |-> new])]
    /\ UNCHANGED <<page, stored, named, ring, gestures>>

tick(p) ==
    /\ Renders(page[p].tree)
    /\ Len(page[p].polls) < MaxPolls
    /\ page[p].cursor < Len(bus[page[p].space])
    /\ page' = [page EXCEPT ![p].polls = Append(@, <<page[p].cursor, Len(bus[page[p].space])>>)]
    /\ UNCHANGED <<stored, named, ring, bus, born, gestures>>

\* What a moved tab was when it was grabbed, for the properties only, is renamed as
\* the tab is; a session to be placed keeps its name.
Renamed(drag, events) ==
    IF drag.kind = "move" THEN [drag EXCEPT !.held = Swapped(@, events)] ELSE drag

Arrives(p) ==
    /\ Renders(page[p].tree)
    /\ \E i \in DOMAIN page[p].polls :
          LET reply == page[p].polls[i]
              q == [page[p] EXCEPT !.polls = RemoveAt(@, i), !.cursor = reply[2]]
              events == SubSeq(bus[q.space], reply[1] + 1, reply[2])
          IN  Shows(p, [q EXCEPT !.tree = swapSessionTab(@, events), !.drag = Renamed(@, events)])
    /\ UNCHANGED <<named, ring, bus, born, gestures>>

\* The events live in the server's memory, and are numbered from one again.
ServerRestarts ==
    /\ Gesture
    /\ bus' = [w \in Workspaces |-> <<>>]
    /\ page' = [p \in Pages |-> [page[p] EXCEPT !.polls = <<>>]]
    /\ UNCHANGED <<stored, named, ring, born>>

LayoutInit ==
    /\ page \in [Pages -> {[space |-> w, link |-> Nowhere, tree |-> defaultLayout(w), drag |-> NoDrag,
                            listed |-> Nowhere, call |-> <<>>, cursor |-> 0, polls |-> <<>>] :
                           w \in Workspaces}]
    /\ stored = [w \in Workspaces |-> IF \E p \in Pages : page[p].space = w
                                      THEN defaultLayout(w) ELSE <<>>]
    /\ named = [w \in Workspaces |-> <<>>]
    /\ ring = [w \in Workspaces |-> <<>>]
    /\ bus = [w \in Workspaces |-> <<>>]
    /\ born \in {S \in SUBSET Chats : Cardinality(S) < MaxBooted}
    /\ gestures = 0

UserActs(p) ==
    \/ select_tab(p) \/ CloseTab(p) \/ ClosePane(p) \/ AddPane(p) \/ SplitButton(p) \/ QuickAdd(p)
    \/ onSave(p) \/ onLoad(p) \/ onReopen(p) \/ onReopenKind(p) \/ onReset(p)
    \/ OnDragStart(p) \/ openInPane(p) \/ OnDragEnd(p) \/ Cancelled(p)
    \/ onSelect(p) \/ Calls(p) \/ Visit(p) \/ Reload(p)

LayoutNext ==
    \/ \E p \in Pages : \/ UserActs(p) \/ ListArrives(p)
                        \/ Answered(p) \/ Failed(p) \/ tick(p) \/ Arrives(p)
    \/ \E w \in Workspaces : Cycled(w)
    \/ ServerRestarts

LayoutSpec == LayoutInit /\ [][LayoutNext]_layoutVars

(***************************************************************************)
(* Properties.                                                             *)
(***************************************************************************)
ViewsOf(tree) == UNION {ToSet(tree[n].views) : n \in DOMAIN tree}

(* Switching workspaces never carries a layout across (#695): whatever is  *)
(* shown, stored, saved or kept for reopening in a workspace was opened in *)
(* it, also when a wake is answered after the user has gone elsewhere.     *)
LayoutsStayHome ==
    /\ \A p \in Pages : \A v \in ViewsOf(page[p].tree) : v.at = page[p].space
    /\ \A w \in Workspaces : \A tree \in {stored[w], named[w], ring[w]} :
          \A v \in ViewsOf(tree) : v.at = w

(* The index a drag was given when the button went down still names the    *)
(* tab that was grabbed when it comes up: what wakes, deep links and layout*)
(* events do to the panes meanwhile leaves the tabs before it in place.    *)
HoldsGrabbed ==
    \A p \in Pages : page[p].drag.kind = "move" =>
        \E n \in DOMAIN page[p].tree :
            /\ page[p].tree[n].id = page[p].drag.from
            /\ page[p].drag.index \in DOMAIN page[p].tree[n].views
            /\ page[p].tree[n].views[page[p].drag.index].what = page[p].drag.held.what

=============================================================================
