----------------------------- MODULE Navigation -----------------------------
(***************************************************************************)
(* The departments of a page (scope.cpp, departmentnode.cpp,               *)
(* department.cpp).  With each search the scope sends a part of its tree;  *)
(* the page keeps a cached tree, replaces the smallest subtree that        *)
(* differs, and brings the models up to date that the shell has opened.    *)
(*                                                                         *)
(* A tree is a function from the ids it has to their parents; the root is  *)
(* its own parent.  Departments come and go but keep their parents.        *)
(***************************************************************************)
EXTENDS Naturals, FiniteSets, Functions

CONSTANTS
  Parent,    \* the parent of each department id
  Root,      \* the id ""
  Views,     \* for each set of departments that the scope may have: what it may send
  None,
  MaxModels, \* bound: departments that the shell has open
  MaxChanges \* bound: changes of the scope's departments

Ids == DOMAIN Parent
Worlds == DOMAIN Views

(* A part of the tree that hangs together: all but its top are below it.   *)
IsTree(t) ==
  /\ DOMAIN t \subseteq Ids /\ \A id \in DOMAIN t : t[id] \in {id, Parent[id]} \cap DOMAIN t
  /\ \E top \in DOMAIN t : \A id \in DOMAIN t : t[id] = id <=> id = top

(* The departments are a tree: going up from one ends at the root, and     *)
(* going down ends as well.                                                *)
ASSUME ParentAssumption ==
  /\ IsFiniteSet(Ids) /\ Root \in Ids /\ Parent[Root] = Root /\ None \notin Ids
  /\ \A id \in Ids : Parent[id] \in Ids
  /\ \A S \in SUBSET (Ids \ {Root}) : S # {} => \E id \in S : Parent[id] \notin S
  /\ \A S \in SUBSET Ids : S # {} => \E id \in S : \A kid \in S \ {Root} : Parent[kid] # id
ASSUME ViewsAssumption ==
  \A w \in Worlds : w \subseteq Ids /\ \A view \in Views[w] : IsTree(view) /\ DOMAIN view \subseteq w
ASSUME NavigationBounds == MaxModels \in Nat /\ MaxChanges \in Nat

VARIABLES
  world,   \* the departments the scope has: external
  tree,    \* m_departmentTree, an empty function for null
  has,     \* the nodes with m_hasSubdepartments
  current, \* m_currentNavigationId
  departmentModels,  \* m_departmentModels: the rows, the active ones and the parent of each
  received,    \* history: the departments that this step received, if any
  updated, \* history: the node that was replaced for them
  changes  \* bound

navigationVars == <<world, tree, has, current, departmentModels, received, updated, changes>>

NoTree == [id \in {} |-> id]
Kids(t, id) == {kid \in DOMAIN t : t[kid] = id /\ kid # id}
TopOf(t) == CHOOSE id \in DOMAIN t : t[id] = id

Ancestors[id \in Ids] == {id} \cup (IF id = Root THEN {} ELSE Ancestors[Parent[id]])
Below(t, id) == {kid \in DOMAIN t : kid # id /\ id \in Ancestors[kid]}

-----------------------------------------------------------------------------
(* has_subdepartments()                                                    *)
Flagged(t) == {id \in DOMAIN t : \E kid \in world : kid # id /\ Parent[kid] = id}

(* initializeForDepartment() for a node of the cached tree.                *)
Replaced(t, view, id) ==
  LET ids == (DOMAIN t \ Below(t, id)) \cup Below(view, id)
  IN [n \in ids |-> IF n = TopOf(t) THEN n ELSE Parent[n]]

(* Mutant: of several subtrees that differ the first one is taken.         *)
FindFirstNode(t, view) ==
  LET mismatch[id \in DOMAIN view] ==
        LET below == {mismatch[kid] : kid \in Kids(view, id)} \ {None}
        IN IF ~(Kids(view, id) \subseteq Kids(t, id)) THEN id
           ELSE IF below # {} THEN CHOOSE n \in below : TRUE
           ELSE IF Kids(view, id) # Kids(t, id) /\ current = id THEN id
           ELSE None
  IN mismatch[TopOf(view)]

(* findUpdateNode(): the node of the smallest subtree that differs, None   *)
(* if the cached tree has all of the view.  That a child is gone counts    *)
(* only at the current department and if nothing below it differs.         *)
findUpdateNode(t, view) ==
  LET mismatch[id \in DOMAIN view] ==
        LET below == {mismatch[kid] : kid \in Kids(view, id)} \ {None}
        IN IF ~(Kids(view, id) \subseteq Kids(t, id)) \/ Cardinality(below) > 1 THEN id
           ELSE IF below # {} THEN CHOOSE n \in below : TRUE
           ELSE IF Kids(view, id) # Kids(t, id) /\ current = id THEN id
           ELSE None
  IN mismatch[TopOf(view)]

(* loadFromDepartmentNode() and markSubdepartmentActive()                  *)
Loaded(t, id) == [kids |-> Kids(t, id), active |-> {}, parent |-> t[id]]
MarkedActive(model, id) == [model EXCEPT !.active = {id} \cap model.kids]

IsLeaf(t, flagged, id) == Kids(t, id) = {} /\ id \notin flagged

(* updateNavigationModels(): the model of the current department, and if   *)
(* it is a leaf the active row of its parent's.                            *)
updateNavigationModels(t, flagged) ==
  [id \in DOMAIN departmentModels |->
     IF id = current /\ id \in DOMAIN t THEN Loaded(t, id)
     ELSE IF current \in DOMAIN t /\ IsLeaf(t, flagged, current) /\ t[current] = id
          THEN MarkedActive(departmentModels[id], current)
     ELSE departmentModels[id]]

-----------------------------------------------------------------------------
NavigationInit ==
  /\ world \in Worlds /\ tree = NoTree /\ has = {} /\ current = Root
  /\ departmentModels = NoTree /\ received = NoTree /\ updated = None /\ changes = 0

NothingReceived == received' = NoTree /\ updated' = None

(* flushUpdates() with departments; a view whose top is not in the cached  *)
(* tree takes its place.                                                   *)
FlushDepartments(view) ==
  LET known == TopOf(view) \in DOMAIN tree
      node  == IF known THEN findUpdateNode(tree, view) ELSE TopOf(view)
      there == IF known THEN DOMAIN tree \ (Below(tree, node) \cup {node}) ELSE {}
  IN /\ tree' = (IF ~known THEN view ELSE IF node = None THEN tree ELSE Replaced(tree, view, node))
     /\ has' = (IF node = None THEN has
                ELSE (has \cap there) \cup (Flagged(view) \cap ({node} \cup Below(view, node))))
     /\ departmentModels' = (IF tree = NoTree THEN departmentModels ELSE updateNavigationModels(tree', has'))
     /\ received' = view /\ updated' = node
     /\ UNCHANGED <<world, current, changes>>

(* The last flush of a search that brought no departments.                 *)
FlushWithoutDepartments ==
  /\ current # Root /\ current' = Root /\ NothingReceived
  /\ UNCHANGED <<world, tree, has, departmentModels, changes>>

SetCurrentNavigationId(id) ==
  /\ current # id /\ current' = id /\ NothingReceived
  /\ UNCHANGED <<world, tree, has, departmentModels, changes>>

GetNavigation(id) ==
  /\ id \in DOMAIN tree /\ id \notin DOMAIN departmentModels
  /\ Cardinality(DOMAIN departmentModels) < MaxModels
  /\ departmentModels' = [n \in DOMAIN departmentModels \cup {id} |->
                  IF n = id THEN MarkedActive(Loaded(tree, id), current) ELSE departmentModels[n]]
  /\ NothingReceived /\ UNCHANGED <<world, tree, has, current, changes>>

DepartmentModelDestroyed(id) ==
  /\ id \in DOMAIN departmentModels
  /\ departmentModels' = Restrict(departmentModels, DOMAIN departmentModels \ {id})
  /\ NothingReceived /\ UNCHANGED <<world, tree, has, current, changes>>

WorldChanges(w) ==
  /\ w # world /\ changes < MaxChanges /\ changes' = changes + 1 /\ world' = w
  /\ NothingReceived /\ UNCHANGED <<tree, has, current, departmentModels>>

NavigationNext ==
  \/ \E view \in Views[world] : FlushDepartments(view)
  \/ FlushWithoutDepartments
  \/ \E id \in Ids : SetCurrentNavigationId(id) \/ GetNavigation(id) \/ DepartmentModelDestroyed(id)
  \/ \E w \in Worlds : WorldChanges(w)

NavigationSpec == NavigationInit /\ [][NavigationNext]_navigationVars

-----------------------------------------------------------------------------
NavigationTypeOK ==
  /\ world \in Worlds /\ current \in Ids
  /\ tree = NoTree \/ IsTree(tree)
  /\ has \subseteq DOMAIN tree
  /\ DOMAIN departmentModels \subseteq Ids /\ Cardinality(DOMAIN departmentModels) <= MaxModels
  /\ updated \in Ids \cup {None}
  /\ \A id \in DOMAIN departmentModels :
       LET model == departmentModels[id]
       IN model.active \subseteq model.kids /\ Cardinality(model.active) <= 1

(* The cached tree holds all of the departments just received, in their    *)
(* places, although only a part of it is replaced; and a child of the      *)
(* current department that the scope did not send is gone, unless the      *)
(* update went to a department below the current one.                      *)
TreeHoldsWhatCame ==
  /\ \A id \in DOMAIN received : id \in DOMAIN tree /\ (id # TopOf(received) => tree[id] = received[id])
  /\ current \in DOMAIN received /\ (updated = None \/ current \notin Ancestors[updated] \ {updated}) =>
       Kids(tree, current) = Kids(received, current)

(* After an update the model of the current department lists the children  *)
(* in the cached tree, and a leaf is the active row of its parent's model  *)
(* if it has one there.                                                    *)
ModelsFollowTree ==
  received # NoTree /\ current \in DOMAIN tree =>
    /\ current \in DOMAIN departmentModels => departmentModels[current].kids = Kids(tree, current)
    /\ IsLeaf(tree, has, current) /\ tree[current] \in DOMAIN departmentModels \ {current}
         => departmentModels[tree[current]].active = {current} \cap departmentModels[tree[current]].kids

(* The two together: what the scope sent last is what the cached tree has, *)
(* and what the shell's models of it show (scope.cpp:386-546).             *)
NavigationFollows == NavigationTypeOK /\ TreeHoldsWhatCame /\ ModelsFollowTree
=============================================================================
