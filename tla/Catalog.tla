------------------------------- MODULE Catalog --------------------------------
(***************************************************************************)
(* A store's categories and products                                       *)
(* (backend/src/stores/products.service.ts).  Categories nest; a request   *)
(* that deletes or moves one first walks down from it, a query for every   *)
(* level, and writes when the walk is over.  Nothing is locked, and there  *)
(* are no transactions: an edit is a request, `at' is what it does next.   *)
(* A restaurant's menu (menu.service.ts) is the same without subcategories.*)
(* Names, prices and the order of the shelves are left out.                *)
(***************************************************************************)
EXTENDS Integers

CONSTANTS
  Categories, Products,      \* bounds: ids the database hands out
  Edits,                     \* bound: requests being answered at a time
  Root, NoCategory, NoProduct

ASSUME CatalogAssumption ==
  /\ Root \notin Categories /\ NoCategory \notin Categories \cup {Root}
  /\ NoProduct \notin Products

VARIABLES
  shelf,          \* of each category: unused, there, or deleted
  parent,         \* parentCategoryId; Root for null
  filed,          \* of each product: its categoryId; NoCategory if there is none
  unusedProducts,
  edit,
  (* history *)
  movedTogether,  \* two moves were under way at once
  deletedUnder    \* something was written while a deletion was under way

shelfVars   == <<shelf, parent>>
productVars == <<filed, unusedProducts>>
catalogVars == <<shelfVars, productVars, edit, movedTogether, deletedUnder>>

NoEdit == [at |-> "idle", kind |-> "none", category |-> NoCategory, to |-> NoCategory,
           product |-> NoProduct, frontier |-> {}, found |-> {}]

EditType ==
  [at : {"idle", "walk", "create", "saveParent", "deleteProducts", "deleteCategories",
         "file", "refile"},
   kind : {"none", "create", "move", "delete", "file"},
   category : Categories \cup {NoCategory},
   to       : Categories \cup {Root, NoCategory},
   product  : Products \cup {NoProduct},
   frontier : SUBSET Categories,      \* the level of the walk
   found    : SUBSET Categories]      \* the levels before it

CatalogTypeOK ==
  /\ shelf \in [Categories -> {"unused", "there", "deleted"}]
  /\ parent \in [Categories -> Categories \cup {Root}]
  /\ filed \in [Products -> Categories \cup {NoCategory}]
  /\ unusedProducts \in SUBSET Products
  /\ edit \in [Edits -> EditType]
  /\ movedTogether \in BOOLEAN /\ deletedUnder \in BOOLEAN

CatalogInit ==
  /\ shelf = [c \in Categories |-> "unused"]
  /\ parent = [c \in Categories |-> Root]
  /\ filed = [p \in Products |-> NoCategory]
  /\ unusedProducts = Products
  /\ edit = [e \in Edits |-> NoEdit]
  /\ movedTogether = FALSE /\ deletedUnder = FALSE

-----------------------------------------------------------------------------
There == {c \in Categories : shelf[c] = "there"}

Children(parents) == {c \in There : parent[c] \in parents}

StartEdit(e, r) == edit[e].at = "idle" /\ edit' = [edit EXCEPT ![e] = r]
StepEdit(e, at) == edit' = [edit EXCEPT ![e].at = at]
EndEdit(e)      == edit' = [edit EXCEPT ![e] = NoEdit]

Others(e, kind) == \E f \in Edits \ {e} : edit[f].kind = kind

(* What the history says of a write of e.                                   *)
NoteWrite(e) ==
  /\ movedTogether' = (movedTogether \/ (edit[e].kind = "move" /\ Others(e, "move")))
  /\ deletedUnder' = (deletedUnder \/ Others(e, "delete")
                        \/ (edit[e].kind = "delete" /\ \E f \in Edits \ {e} : edit[f].at # "idle"))

Unwritten == UNCHANGED <<shelfVars, productVars, movedTogether, deletedUnder>>

-----------------------------------------------------------------------------
createCategory(e, p) ==
  /\ p \in There \cup {Root}
  /\ StartEdit(e, [NoEdit EXCEPT !.at = "create", !.kind = "create", !.to = p])
  /\ Unwritten

InsertCategory(e, c) ==
  /\ edit[e].at = "create" /\ shelf[c] = "unused"
  /\ shelf' = [shelf EXCEPT ![c] = "there"]
  /\ parent' = [parent EXCEPT ![c] = edit[e].to]
  /\ NoteWrite(e) /\ EndEdit(e)
  /\ UNCHANGED productVars

(* Moving a category to the top needs no walk.                              *)
updateCategory(e, c, p) ==
  /\ c \in There /\ p \in (There \ {c}) \cup {Root}
  /\ StartEdit(e, [NoEdit EXCEPT !.at = IF p = Root THEN "saveParent" ELSE "walk",
                                 !.kind = "move", !.category = c, !.to = p,
                                 !.frontier = {c}])
  /\ Unwritten

deleteCategory(e, c) ==
  /\ c \in There
  /\ StartEdit(e, [NoEdit EXCEPT !.at = "walk", !.kind = "delete", !.category = c,
                                 !.frontier = {c}])
  /\ Unwritten

(* Mutant: only the first level is collected. *)
FirstLevelOnly(e) == IF edit[e].found = {} THEN Children(edit[e].frontier) ELSE {}

NextLevel(e) == Children(edit[e].frontier)

(* collectDescendantIds: one query for the children of the frontier.        *)
collectDescendantIds(e) ==
  /\ edit[e].at = "walk" /\ edit[e].frontier # {}
  /\ edit' = [edit EXCEPT ![e].frontier = NextLevel(e),
                          ![e].found = edit[e].found \cup NextLevel(e)]
  /\ Unwritten

(* Mutant: a category may go under one of its own subcategories. *)
AnywhereElse(e) == FALSE

isDescendant(e) == edit[e].to \in edit[e].found

WalkDone(e) ==
  /\ edit[e].at = "walk" /\ edit[e].frontier = {}
  /\ IF edit[e].kind = "delete" THEN StepEdit(e, "deleteProducts")
     ELSE IF isDescendant(e) THEN EndEdit(e)
     ELSE StepEdit(e, "saveParent")
  /\ Unwritten

(* Saving a document that is gone is an error.                              *)
SaveParent(e) ==
  LET c == edit[e].category IN
  /\ edit[e].at = "saveParent"
  /\ IF c \in There
       THEN parent' = [parent EXCEPT ![c] = edit[e].to] /\ NoteWrite(e)
       ELSE UNCHANGED <<parent, movedTogether, deletedUnder>>
  /\ EndEdit(e)
  /\ UNCHANGED <<shelf, productVars>>

Doomed(e) == edit[e].found \cup {edit[e].category}

DeleteProducts(e) ==
  /\ edit[e].at = "deleteProducts"
  /\ filed' = [p \in Products |-> IF filed[p] \in Doomed(e) THEN NoCategory ELSE filed[p]]
  /\ NoteWrite(e) /\ StepEdit(e, "deleteCategories")
  /\ UNCHANGED <<shelfVars, unusedProducts>>

DeleteCategories(e) ==
  /\ edit[e].at = "deleteCategories"
  /\ shelf' = [c \in Categories |->
                 IF c \in Doomed(e) /\ shelf[c] = "there" THEN "deleted" ELSE shelf[c]]
  /\ NoteWrite(e) /\ EndEdit(e)
  /\ UNCHANGED <<parent, productVars>>

(* findLeafCategoryOrThrow *)
IsLeaf(c) == c \in There /\ Children({c}) = {}

createProduct(e, c) ==
  /\ IsLeaf(c)
  /\ StartEdit(e, [NoEdit EXCEPT !.at = "file", !.kind = "file", !.to = c])
  /\ Unwritten

InsertProduct(e, p) ==
  /\ edit[e].at = "file" /\ p \in unusedProducts
  /\ unusedProducts' = unusedProducts \ {p}
  /\ filed' = [filed EXCEPT ![p] = edit[e].to]
  /\ NoteWrite(e) /\ EndEdit(e)
  /\ UNCHANGED shelfVars

updateProduct(e, p, c) ==
  /\ IsLeaf(c) /\ filed[p] # NoCategory
  /\ StartEdit(e, [NoEdit EXCEPT !.at = "refile", !.kind = "file", !.to = c, !.product = p])
  /\ Unwritten

SaveProduct(e) ==
  LET p == edit[e].product IN
  /\ edit[e].at = "refile"
  /\ IF filed[p] # NoCategory
       THEN filed' = [filed EXCEPT ![p] = edit[e].to] /\ NoteWrite(e)
       ELSE UNCHANGED <<filed, movedTogether, deletedUnder>>
  /\ EndEdit(e)
  /\ UNCHANGED <<shelfVars, unusedProducts>>

deleteProduct(p) ==
  /\ filed[p] # NoCategory
  /\ filed' = [filed EXCEPT ![p] = NoCategory]
  /\ UNCHANGED <<shelfVars, unusedProducts, edit, movedTogether, deletedUnder>>

(* A restart of the server (external): the edit stops where it is.          *)
AbandonEdit(e) ==
  /\ edit[e].at # "idle"
  /\ EndEdit(e)
  /\ Unwritten

CatalogNext ==
  \/ \E e \in Edits, c \in Categories :
       \/ \E p \in Categories \cup {Root} : updateCategory(e, c, p)
       \/ \E p \in Products : updateProduct(e, p, c)
       \/ InsertCategory(e, c) \/ deleteCategory(e, c) \/ createProduct(e, c)
  \/ \E e \in Edits :
       \/ \E p \in Categories \cup {Root} : createCategory(e, p)
       \/ \E p \in Products : InsertProduct(e, p)
       \/ collectDescendantIds(e) \/ WalkDone(e) \/ SaveParent(e)
       \/ DeleteProducts(e) \/ DeleteCategories(e) \/ SaveProduct(e) \/ AbandonEdit(e)
  \/ \E p \in Products : deleteProduct(p)

CatalogSpec == CatalogInit /\ [][CatalogNext]_catalogVars

-----------------------------------------------------------------------------
(* Properties *)

(* The walks end, because the categories form a forest: a set of categories *)
(* that all have their parent in the set would keep a walk going for ever   *)
(* (products.service.ts:250-266).  What the check at 88-92 cannot see is    *)
(* another move that is under way.                                          *)
CategoriesFormAForest ==
  \/ movedTogether
  \/ \A s \in SUBSET There : s # {} => \E c \in s : parent[c] \notin s

(* Deleting a category leaves nothing behind that could not be reached from *)
(* the top, at any moment of the deletion, whether or not it gets to its    *)
(* end (101-103): a product has a category, a category has a parent, unless *)
(* something was filed, moved or deleted while the deletion was under way.  *)
NothingIsOrphaned ==
  \/ deletedUnder
  \/ /\ \A p \in Products : filed[p] \in There \cup {NoCategory}
     /\ \A c \in There : parent[c] \in There \cup {Root}
=============================================================================
