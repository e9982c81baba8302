----------------------------- MODULE Household ------------------------------
(***************************************************************************)
(* Recipes, meal plans, shopping lists and tasks of one family             *)
(* (modules/meals, shopping and tasks).                                    *)
(*                                                                         *)
(* A client may read a row and later send its version as If-Match.  Where  *)
(* the condition of an updateMany repeats what the read before it asked,   *)
(* the two are one step; what relies on an earlier read, and the           *)
(* transaction that rewrites a recipe, takes two.                          *)
(*                                                                         *)
(* The ingredient rows written together carry the number of their write in *)
(* place of their ids, and a generated shopping item is named by its       *)
(* source key: the plan and the ingredient row.                            *)
(***************************************************************************)
EXTENDS Naturals, FiniteSets, Sequences

CONSTANTS
  Clients,
  Recipes, Plans, Lists, Tasks,
  Manual,       \* shopping items added by hand
  Names,        \* of ingredients
  Slots,        \* date and meal slot of a plan
  Given,        \* lists and tasks created before
  Unset,
  MaxWrites,    \* bound: writes of ingredients
  MaxOps        \* bound: changes of the rows

Writes      == 1 .. MaxWrites
Ingredients == Writes \X Names
Items       == Manual \union (Plans \X Ingredients)
Rows        == Recipes \union Plans \union Lists \union Items \union Tasks
Titles       == {1, 2}       \* what else an update may change: names, titles

ASSUME HouseholdAssumption ==
  /\ Unset \notin Clients \union Lists \union Tasks
  /\ Given \subseteq Lists \union Tasks
  /\ MaxWrites \in Nat /\ MaxOps \in Nat
  \* no two rows have one id
  /\ Recipes \intersect (Plans \union Lists \union Items \union Tasks) = {}
  /\ Plans \intersect (Lists \union Items \union Tasks) = {}
  /\ Lists \intersect (Items \union Tasks) = {}
  /\ Items \intersect Tasks = {}

VARIABLES
  version,      \* 0: the row has not been inserted
  archived,     \* archived recipes, lists and tasks, and deleted plans
  text,         \* of recipes and tasks
  ingredients,  \* recipe_ingredients of each recipe
  menu,         \* recipe and slot of each plan
  place,        \* the list of each item
  by,           \* checkedById of items, completedById of tasks
  client,       \* what each client has seen and has under way
  asked,        \* history: the ingredients each write was asked to leave
  ops,          \* bound: changes so far
  unseen        \* history: rows changed under a version that did not show them

tables    == <<version, archived, text, ingredients, menu, place, by>>
hvars     == <<tables, client, asked, ops, unseen>>

Rest == [op |-> "none", row |-> Unset, expected |-> 0, knew |-> Unset, with |-> <<>>]

HInit ==
  /\ version     = [x \in Rows |-> IF x \in Given THEN 1 ELSE 0]
  /\ archived    = {}
  /\ text        = [x \in Recipes \union Tasks |-> 1]
  /\ ingredients = [r \in Recipes |-> {}]
  /\ menu        = [p \in Plans |-> <<>>]
  /\ place       = [i \in Items |-> Unset]
  /\ by          = [x \in Items \union Tasks |-> Unset]
  /\ client      = [c \in Clients |-> Rest]
  /\ asked       = <<>>
  /\ ops         = 0
  /\ unseen      = {}

Live(x) == version[x] > 0 /\ x \notin archived

\* What a client that reads the row is shown of it.  A list is also shown with its
\* items (shopping.service.ts:15-22), and a recipe with labels and media: these are
\* rows of their own, and adding one does not raise the version of the other.
Content(x) ==
  <<x \in archived,
    CASE x \in Recipes -> <<text[x], ingredients[x]>>
      [] x \in Tasks   -> <<text[x], by[x]>>
      [] x \in Items   -> <<place[x], by[x]>>
      [] x \in Plans   -> menu[x]
      [] x \in Lists   -> <<>> >>

-----------------------------------------------------------------------------
(***************************************************************************)
(* Calls.                                                                  *)
(***************************************************************************)

\* The client reads a row and keeps its version.
Look(c, x) ==
  /\ client[c].op = "none"
  /\ version[x] > 0
  /\ client' = [client EXCEPT ![c] = [op |-> "looked", row |-> x, expected |-> version[x],
                                  knew |-> Content(x), with |-> <<>>]]
  /\ UNCHANGED <<tables, asked, ops, unseen>>

\* A refusal, an error that rolls back, or a client that does not come back.
GiveUp(c) ==
  /\ client[c].op # "none"
  /\ client' = [client EXCEPT ![c] = Rest]
  /\ UNCHANGED <<tables, asked, ops, unseen>>

\* The client may call an operation on the row, with If-Match if it has looked.
Ready(c, x) == client[c].op = "none" \/ (client[c].op = "looked" /\ client[c].row = x)

\* The handler has read what it relies on and awaits its next query.
Await(c, op, x, with) ==
  /\ client' = [client EXCEPT ![c] = [@ EXCEPT !.op = op, !.row = x, !.with = with]]
  /\ UNCHANGED <<tables, asked, ops, unseen>>

\* Mutant: the version is left out of the condition.
Granted_Any(c, x) == TRUE

\* expectedVersion, where it is given, is the row's version.
Granted(c, x) == client[c].expected \in {0, version[x]}

\* The updateMany counts one row.
Update(c, x) ==
  /\ Granted(c, x)
  /\ ops < MaxOps /\ ops' = ops + 1
  /\ version' = [version EXCEPT ![x] = @ + 1]
  /\ unseen' = IF client[c].expected # 0 /\ client[c].knew # Content(x)
              THEN unseen \union {x} ELSE unseen
  /\ client' = [client EXCEPT ![c] = Rest]

Insert(c, X) ==
  /\ ops < MaxOps /\ ops' = ops + 1
  /\ version' = [x \in Rows |-> IF x \in X /\ version[x] = 0 THEN 1 ELSE version[x]]
  /\ client' = [client EXCEPT ![c] = Rest]
  /\ UNCHANGED unseen

-----------------------------------------------------------------------------
(***************************************************************************)
(* Recipes.                                                                *)
(***************************************************************************)

Write(S) == /\ Len(asked) < MaxWrites
            /\ asked' = Append(asked, S)
NewIngredients(S) == {Len(asked) + 1} \X S

CreateRecipe(c, r, S) ==
  /\ client[c].op = "none" /\ version[r] = 0
  /\ Insert(c, {r})
  /\ Write(S)
  /\ ingredients' = [ingredients EXCEPT ![r] = NewIngredients(S)]
  /\ UNCHANGED <<archived, text, menu, place, by>>

\* Mutant: the transaction does not update the recipe's row first.
Locked_Never(r) == FALSE

\* A transaction that has updated the recipe's row has not ended.
Locked(r) == \E c \in Clients : client[c].op = "rewrite" /\ client[c].row = r

\* update with new ingredients: the row is updated and locked, the ingredients
\* the transaction sees are deleted.
RewriteRecipe(c, r, S) ==
  /\ Ready(c, r) /\ Live(r) /\ Granted(c, r)
  /\ ~Locked(r)
  /\ Await(c, "rewrite", r, [deleted |-> ingredients[r], created |-> S])

\* The new ingredients are created and all of it commits.
CommitRewrite(c) ==
  LET r == client[c].row  w == client[c].with IN
  /\ client[c].op = "rewrite"
  /\ Update(c, r)
  /\ Write(w.created)
  /\ ingredients' = [ingredients EXCEPT ![r] = (@ \ w.deleted) \union NewIngredients(w.created)]
  /\ UNCHANGED <<archived, text, menu, place, by>>

\* update without ingredients.
RenameRecipe(c, r, t) ==
  /\ Ready(c, r) /\ Live(r) /\ ~Locked(r)
  /\ Update(c, r)
  /\ text' = [text EXCEPT ![r] = t]
  /\ UNCHANGED <<archived, ingredients, menu, place, by, asked>>

\* Recipes and shopping lists.
Archive(c, x) ==
  /\ Ready(c, x) /\ Live(x) /\ ~Locked(x)
  /\ Update(c, x)
  /\ archived' = archived \union {x}
  /\ UNCHANGED <<text, ingredients, menu, place, by, asked>>

Restore(c, x) ==
  /\ Ready(c, x) /\ x \in archived
  /\ Update(c, x)
  /\ archived' = archived \ {x}
  /\ UNCHANGED <<text, ingredients, menu, place, by, asked>>

-----------------------------------------------------------------------------
(***************************************************************************)
(* Meal plans.                                                             *)
(***************************************************************************)

\* The unique index on date and slot.
Free(s, p) == \A q \in Plans \ {p} : Live(q) => menu[q][2] # s

FindRecipe(c, r, s) ==
  /\ client[c].op = "none" /\ Live(r)
  /\ Await(c, "plan", r, <<r, s>>)

CreatePlan(c, p) ==
  /\ client[c].op = "plan" /\ version[p] = 0
  /\ Free(client[c].with[2], p)
  /\ Insert(c, {p})
  /\ menu' = [menu EXCEPT ![p] = client[c].with]
  /\ UNCHANGED <<archived, text, ingredients, place, by, asked>>

FindPlan(c, p, r, s) ==
  /\ Ready(c, p) /\ Live(p)
  /\ Live(r) \/ r = menu[p][1]      \* a new recipe must not be archived
  /\ Await(c, "replan", p, <<r, s>>)

UpdatePlan(c, p) ==
  /\ client[c].op = "replan" /\ client[c].row = p
  /\ Live(p) /\ Free(client[c].with[2], p)
  /\ Update(c, p)
  /\ menu' = [menu EXCEPT ![p] = client[c].with]
  /\ UNCHANGED <<archived, text, ingredients, place, by, asked>>

DeletePlan(c, p) ==
  /\ client[c].op = "none" /\ Live(p)
  /\ Update(c, p)
  /\ archived' = archived \union {p}
  /\ UNCHANGED <<text, ingredients, menu, place, by, asked>>

\* generateShopping reads the plan with its ingredients, and the list.
FindIngredients(c, p, l) ==
  /\ client[c].op = "none" /\ Live(p) /\ Live(l)
  /\ Await(c, "generate", l, {p} \X ingredients[menu[p][1]])

\* The upserts by source key: a row that is there moves to the list as it is.
GenerateItems(c) ==
  /\ client[c].op = "generate"
  /\ Insert(c, client[c].with)
  /\ place' = [i \in Items |-> IF i \in client[c].with THEN client[c].row ELSE place[i]]
  /\ UNCHANGED <<archived, text, ingredients, menu, by, asked>>

-----------------------------------------------------------------------------
(***************************************************************************)
(* Shopping lists and tasks.                                               *)
(***************************************************************************)
CreateRow(c, x) ==
  /\ client[c].op = "none" /\ version[x] = 0
  /\ Insert(c, {x})
  /\ UNCHANGED <<archived, text, ingredients, menu, place, by, asked>>

FindList(c, l) ==
  /\ client[c].op = "none" /\ Live(l)
  /\ Await(c, "add", l, <<>>)

AddItem(c, i) ==
  /\ client[c].op = "add" /\ version[i] = 0
  /\ Insert(c, {i})
  /\ place' = [place EXCEPT ![i] = client[c].row]
  /\ UNCHANGED <<archived, text, ingredients, menu, by, asked>>

\* checkItem reads the item through an open list, and its version if the client
\* gave none.
FindItem(c, i, checked) ==
  /\ Ready(c, i)
  /\ version[i] > 0 /\ place[i] \notin archived
  /\ client[c].op = "looked" => client[c].knew[2][1] = place[i]
  /\ client' = [client EXCEPT ![c] =
       [op |-> "check", row |-> i, with |-> <<place[i], checked>>,
        expected |-> IF @.op = "none" THEN version[i] ELSE @.expected,
        knew     |-> IF @.op = "none" THEN Content(i) ELSE @.knew]]
  /\ UNCHANGED <<tables, asked, ops, unseen>>

CheckItem(c, i) ==
  /\ client[c].op = "check" /\ client[c].row = i
  /\ place[i] = client[c].with[1]
  /\ client[c].with[2] = (by[i] = Unset)
  /\ Update(c, i)
  /\ by' = [by EXCEPT ![i] = IF @ = Unset THEN c ELSE Unset]
  /\ UNCHANGED <<archived, text, ingredients, menu, place, asked>>

UpdateTask(c, k, t) ==
  /\ Ready(c, k) /\ Live(k)
  /\ Update(c, k)
  /\ text' = [text EXCEPT ![k] = t]
  /\ UNCHANGED <<archived, ingredients, menu, place, by, asked>>

SetCompleted(c, k) ==
  /\ Ready(c, k) /\ Live(k)
  /\ Update(c, k)
  /\ by' = [by EXCEPT ![k] = IF @ = Unset THEN c ELSE Unset]
  /\ UNCHANGED <<archived, text, ingredients, menu, place, asked>>

ArchiveTask(c, k) ==
  /\ client[c].op = "none" /\ Live(k)
  /\ Update(c, k)
  /\ archived' = archived \union {k}
  /\ UNCHANGED <<text, ingredients, menu, place, by, asked>>

-----------------------------------------------------------------------------
ClientNext(c) ==
  \/ \E x \in Rows : Look(c, x)
  \/ GiveUp(c)
  \/ \E r \in Recipes, S \in SUBSET Names : CreateRecipe(c, r, S) \/ RewriteRecipe(c, r, S)
  \/ CommitRewrite(c)
  \/ \E r \in Recipes, t \in Titles : RenameRecipe(c, r, t)
  \/ \E x \in Recipes \union Lists : Archive(c, x) \/ Restore(c, x)
  \/ \E r \in Recipes, s \in Slots : FindRecipe(c, r, s)
  \/ \E p \in Plans : CreatePlan(c, p) \/ UpdatePlan(c, p) \/ DeletePlan(c, p)
  \/ \E p \in Plans, r \in Recipes, s \in Slots : FindPlan(c, p, r, s)
  \/ \E p \in Plans, l \in Lists : FindIngredients(c, p, l)
  \/ GenerateItems(c)
  \/ \E x \in Lists \union Tasks : CreateRow(c, x)
  \/ \E l \in Lists : FindList(c, l)
  \/ \E i \in Manual : AddItem(c, i)
  \/ \E i \in Items : CheckItem(c, i) \/ \E checked \in BOOLEAN : FindItem(c, i, checked)
  \/ \E k \in Tasks : \/ SetCompleted(c, k) \/ ArchiveTask(c, k)
                      \/ \E t \in Titles : UpdateTask(c, k, t)

HNext == \E c \in Clients : ClientNext(c)

HSpec == HInit /\ [][HNext]_hvars

-----------------------------------------------------------------------------
(***************************************************************************)
(* Properties.                                                             *)
(***************************************************************************)

\* The shape of the rows.
HTypeOK ==
  /\ version \in [Rows -> Nat]
  /\ archived \subseteq Recipes \union Plans \union Lists \union Tasks
  /\ text \in [Recipes \union Tasks -> Titles]
  /\ ingredients \in [Recipes -> SUBSET Ingredients]
  /\ menu \in [Plans -> {<<>>} \union (Recipes \X Slots)]
  /\ place \in [Items -> Lists \union {Unset}]
  /\ by \in [Items \union Tasks -> Clients \union {Unset}]

\* docs/IMPLEMENTATION_STATUS.md:824: the ingredients of a recipe are replaced as
\* a whole.  However two updates interleave, what a recipe has is all that one of
\* them asked for, and nothing of any other.
RecipesWhole ==
  /\ HTypeOK
  /\ \A r \in Recipes : version[r] > 0 =>
       \E w \in DOMAIN asked : ingredients[r] = {w} \X asked[w]

\* Who changes a row under a version changes what that version showed: recipe
\* with its ingredients, plan, task, and an item in the list it was seen in.  An
\* item that a second generation moves keeps its version, but the check names the
\* list as well.  Of a list only its own row is protected: it may be archived with
\* items that were added after the client had seen it.
IfMatchHolds == unseen = {}
=============================================================================
