--------------------------- MODULE Materialization ---------------------------
(***************************************************************************)
(* Object materialization (src/runtime/materialization.cpp): a frame that  *)
(* was rebuilt after an exit, and the objects a plan describes, are handed *)
(* to the host callback by callback, in one transaction.  Every callback   *)
(* may fail.  A site stands for a site and its resume offset; an input's   *)
(* `of` is a recovered slot, a constant or the id of an object.            *)
(***************************************************************************)
EXTENDS Naturals, Sequences, FiniteSets, SequencesExt

CONSTANTS kMaximumObjects, kMaximumFields

VARIABLES
  transaction,  \* materialize_frame
  host          \* what the callbacks have done
materializationVars == <<transaction, host>>

Input(from, type, of) == [source |-> from, type |-> type, of |-> of]
Recipe(id, destination_slot, fields) == [id |-> id, destination_slot |-> destination_slot, fields |-> fields]
EmptyPlan(site) == [site |-> site, recipes |-> <<>>]

FieldCount(recipes) == FoldLeft(LAMBDA total, recipe : total + Len(recipe.fields), 0, recipes)
Scalar(type) == type \in {"kWord", "kFloat64"}

\* A field names a source that exists and, unless it is an object, a scalar type.
WellFormed(recipe) ==
  \A input \in ToSet(recipe.fields) :
    /\ input.source \in {"kRecoveredSlot", "kConstant", "kObject"}
    /\ input.source = "kObject" \/ Scalar(input.type)

\* MaterializationPlan::add: a recipe that is refused leaves the plan alone.
add_recipe(plan, recipe) ==
  IF /\ Len(plan.recipes) < kMaximumObjects
     /\ \A other \in ToSet(plan.recipes) :
          other.id # recipe.id /\ other.destination_slot # recipe.destination_slot
     /\ FieldCount(Append(plan.recipes, recipe)) <= kMaximumFields
     /\ WellFormed(recipe)
  THEN [plan EXCEPT !.recipes = Append(@, recipe)] ELSE plan

\* MaterializationPlan::validate: what add has checked, and every object named
\* is in the plan.
validate_plan(plan) ==
  /\ \A i, j \in DOMAIN plan.recipes : i # j =>
       /\ plan.recipes[i].id # plan.recipes[j].id
       /\ plan.recipes[i].destination_slot # plan.recipes[j].destination_slot
  /\ FieldCount(plan.recipes) <= kMaximumFields
  /\ \A recipe \in ToSet(plan.recipes) : WellFormed(recipe)
  /\ \A recipe \in ToSet(plan.recipes) : \A input \in ToSet(recipe.fields) :
       input.source = "kObject" => \E other \in ToSet(plan.recipes) : other.id = input.of

\* The checks of materialize_frame before the host is called.
Materializable(frame, plan) ==
  /\ plan.site = frame.site
  /\ validate_plan(plan)
  /\ \A v \in ToSet(frame.values) : Scalar(v.type)
  /\ \A i, j \in DOMAIN frame.values : i # j => frame.values[i].slot # frame.values[j].slot
  /\ \A recipe \in ToSet(plan.recipes) :
       /\ \A v \in ToSet(frame.values) : v.slot # recipe.destination_slot
       /\ \A input \in ToSet(recipe.fields) :
            input.source = "kRecoveredSlot" =>
              \E v \in ToSet(frame.values) : v.slot = input.of /\ v.type = input.type

-----------------------------------------------------------------------------
\* A place in the loops of materialize_frame: the callback that is made next.
At(name, index, field) == [name |-> name, index |-> index, field |-> field]

NoTransaction ==
  [status |-> "none", site |-> 0, values |-> <<>>, recipes |-> <<>>, handles |-> <<>>,
   call |-> At("begin", 0, 0)]
Nothing == [objects |-> {}, frame |-> {}]
IdleHost == [allocated |-> 0, staged |-> Nothing, published |-> Nothing, rollbacks |-> 0]

\* output.values: the rebuilt values, then the objects.
OutputSize == Len(transaction.values) + Len(transaction.recipes)
Output(handle, i) ==
  LET object == i - Len(transaction.values)
  IN IF i <= Len(transaction.values)
     THEN <<transaction.values[i].slot, transaction.values[i].value>>
     ELSE <<transaction.recipes[object].destination_slot, handle[object]>>

FrameFrom(i) == IF i <= OutputSize THEN At("store_frame", i, 0) ELSE At("commit", 0, 0)

\* The store that follows field k of object i; objects without fields are
\* passed over.
StoreAfter(i, k) ==
  LET later == {j \in DOMAIN transaction.recipes : j > i /\ transaction.recipes[j].fields # <<>>}
  IN IF i > 0 /\ k < Len(transaction.recipes[i].fields) THEN At("store", i, k + 1)
     ELSE IF later # {} THEN At("store", Min(later), 1)
     ELSE FrameFrom(1)

\* Every object exists before the first field is stored.
AllocateFrom(i) == IF i <= Len(transaction.recipes) THEN At("allocate", i, 0) ELSE StoreAfter(0, 0)

\* The order of the callbacks.
Following(call) ==
  CASE call.name = "begin" -> AllocateFrom(1)
    [] call.name = "allocate" -> AllocateFrom(call.index + 1)
    [] call.name = "store" -> StoreAfter(call.index, call.field)
    [] call.name = "store_frame" -> FrameFrom(call.index + 1)
    [] OTHER -> call

\* object_indices: the place of an object in the plan; and frame.find.
object_index(recipes, id) == CHOOSE i \in DOMAIN recipes : recipes[i].id = id
find(values, slot) == CHOOSE v \in ToSet(values) : v.slot = slot

\* What a field receives.
Contents(handle, input) ==
  CASE input.source = "kObject" -> handle[object_index(transaction.recipes, input.of)]
    [] input.source = "kConstant" -> input.of
    [] OTHER -> find(transaction.values, input.of).value

\* A field of an object at the host: handle, field, contents.
StoredField(handle, i, k) == <<handle[i], k, Contents(handle, transaction.recipes[i].fields[k])>>

\* A call that succeeds, at the host.  Frame slots are <<slot, contents>>.
Answered(call) ==
  CASE call.name = "allocate" -> [host EXCEPT !.allocated = @ + 1]
    [] call.name = "store" ->
         [host EXCEPT !.staged =
            [objects |-> host.staged.objects \cup {StoredField(transaction.handles, call.index, call.field)},
             frame |-> host.staged.frame]]
    [] call.name = "store_frame" ->
         [host EXCEPT !.staged =
            [objects |-> host.staged.objects,
             frame |-> host.staged.frame \cup {Output(transaction.handles, call.index)}]]
    [] call.name = "commit" -> [host EXCEPT !.published = host.staged, !.staged = Nothing]
    [] OTHER -> host

\* The host's rollback drops what was staged.
RolledBack == [host EXCEPT !.staged = Nothing, !.allocated = 0, !.rollbacks = @ + 1]

\* A variant of rollback_failure that trusts a host whose commit failed.
KeepStaged(call) == IF call.name = "commit" THEN host ELSE RolledBack

\* rollback_failure, whichever callback failed.
rollback_failure(call) == RolledBack

\* materialize_frame is called.  A plan that does not fit, or for which there is
\* no memory, never reaches the host.
Materialize(frame, plan) ==
  /\ transaction.status = "none"
  /\ \E status \in {"open", "refused"} :
       /\ status = "open" => Materializable(frame, plan)
       /\ transaction' = [status |-> status, site |-> frame.site, values |-> frame.values,
                          recipes |-> plan.recipes,
                          handles |-> [i \in DOMAIN plan.recipes |-> 0], call |-> At("begin", 0, 0)]
  /\ UNCHANGED host

\* The handle an allocation reports.  Handles are the host's own names.
Allocated(call) ==
  IF call.name = "allocate" THEN [transaction.handles EXCEPT ![call.index] = 100 + host.allocated + 1]
  ELSE transaction.handles

\* The next callback, which fails or not.
Callback ==
  /\ transaction.status = "open"
  /\ LET call == transaction.call
     IN \/ /\ host' = Answered(call)
           /\ transaction' = [transaction EXCEPT
                !.status = IF call.name = "commit" THEN "ok" ELSE "open",
                !.handles = Allocated(call),
                !.call = Following(call)]
        \/ /\ host' = rollback_failure(call)
           /\ transaction' = [transaction EXCEPT !.status = "failed"]

-----------------------------------------------------------------------------
\* A cell of an object is what field k of recipe i says, cycles included.
IsField(handle, cell, i, k) ==
  LET input == transaction.recipes[i].fields[k]
  IN /\ cell[1] = handle[i]
     /\ cell[2] = k
     /\ CASE input.source = "kObject" ->
               \E o \in DOMAIN handle : transaction.recipes[o].id = input.of /\ cell[3] = handle[o]
          [] input.source = "kConstant" -> cell[3] = input.of
          [] OTHER -> \E v \in ToSet(transaction.values) : v.slot = input.of /\ cell[3] = v.value

\* The published frame has the rebuilt values and one object for each recipe,
\* whose fields are all stored, and nothing else.
FrameIsComplete ==
  \E handle \in [DOMAIN transaction.recipes -> 101..100 + Len(transaction.recipes)] :
    /\ \A i, j \in DOMAIN handle : handle[i] = handle[j] => i = j
    /\ \A i \in DOMAIN handle : \A k \in DOMAIN transaction.recipes[i].fields :
         \E cell \in host.published.objects : IsField(handle, cell, i, k)
    /\ \A cell \in host.published.objects :
         \E i \in DOMAIN handle : \E k \in DOMAIN transaction.recipes[i].fields : IsField(handle, cell, i, k)
    /\ host.published.frame =
         {<<v.slot, v.value>> : v \in ToSet(transaction.values)}
         \cup {<<transaction.recipes[i].destination_slot, handle[i]>> : i \in DOMAIN handle}

\* "Any failure ... calls rollback exactly once and returns no partially
\* materialized frame": the host has everything or nothing, whichever callback
\* fails, and a plan that does not fit leaves it alone.
MaterializationIsAtomic ==
  /\ transaction.status = "ok" => FrameIsComplete /\ host.staged = Nothing /\ host.rollbacks = 0
  /\ transaction.status = "failed" =>
       host.published = Nothing /\ host.staged = Nothing /\ host.rollbacks = 1
  /\ transaction.status \in {"none", "refused"} => host = IdleHost
  /\ transaction.status = "open" => host.published = Nothing
=============================================================================
