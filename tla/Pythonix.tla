------------------------------- MODULE Pythonix -------------------------------
(***************************************************************************)
(* The interpreter of kernel/src/pythonix: objects on the kernel heap, the *)
(* array of all of them, the map of names (KHashMap), and the collector    *)
(* that runs after each line.  The regular expressions that tell lines     *)
(* apart are abstracted to the kinds of lines they are written for.        *)
(***************************************************************************)
EXTENDS PyValues, KHashMap, SequencesExt, FiniteSets

CONSTANTS MaxObjects,   \* no more objects than these fit in memory
          NoObject, None

\* Memory does not run out: between two lines each object is the value of a
\* variable, and no line makes more than two.
ASSUME ObjectsAssumption ==
  MaxObjects \in Nat /\ MaxObjects >= Cardinality({Hash[x] : x \in Names}) + 2

Addr == 1 .. MaxObjects     \* addresses kmalloc gives to objects

VARIABLES
  names,      \* vm->names
  types,      \* vm->types, the addresses of all objects
  obj,        \* obj[t]: the object at address t, or NoObject
  place,      \* what the interpreter does next, see Places
  quitted,    \* pythonix_interpreter_quitted
  left        \* the objects that pythonix_vm_gc has still to look at

vars == <<names, types, obj, place, quitted, left>>
vm == [names |-> names, types |-> types, obj |-> obj, quitted |-> quitted]

Places == {"read", "gc", "quit", "panic"}
Anon == "anonymous"     \* PYTHONIX_VAR_NAME_ANON
Objects == [value : Values, name : Names \cup {Anon}, refs : -1 .. 2]
ASSUME NothingAssumption == NoObject \notin Objects /\ None \notin Values

-----------------------------------------------------------------------------
(* Functions of type.c, type_int.c and type_str.c.  Each takes the state of
   the interpreter and returns [vm |-> its new state, t |-> an object or NULL]. *)

Free(m) == {t \in Addr : m.obj[t] = NoObject}
Result(m, t) == [vm |-> m, t |-> t]

pythonix_vm_get_type(m, x) == khashmap_get(m.names, Hash[x])

\* The reference count of an object under x goes down before it is replaced.
\* Mutant: it does not.
Keep(obj1, old) == obj1
Release(obj1, old) == IF old = NULL THEN obj1 ELSE [obj1 EXCEPT ![old].refs = @ - 1]

pythonix_type_new(m, v, x) ==
  LET t == CHOOSE t \in Free(m) : \A u \in Free(m) : t <= u
      anon == x = Anon
      obj1 == [m.obj EXCEPT ![t] =
                 [value |-> v, name |-> x, refs |-> IF anon THEN 0 ELSE 1]]
  IN  Result([m EXCEPT
                !.types = Append(@, t),
                !.obj = IF anon THEN obj1 ELSE Release(obj1, pythonix_vm_get_type(m, x)),
                !.names = IF anon THEN @ ELSE khashmap_set(@, Hash[x], t)], t)

\* Mutant: a variable shares the object that is assigned to it.
ShareInstead(m, t, x) ==
  IF x = Anon THEN pythonix_type_new(m, Copied(m.obj[t].value), x)
  ELSE Result([m EXCEPT !.obj = [Release(@, pythonix_vm_get_type(m, x)) EXCEPT ![t].refs = @ + 1],
                        !.names = khashmap_set(@, Hash[x], t)], t)
pythonix_type__copy__(m, t, x) == pythonix_type_new(m, Copied(m.obj[t].value), x)

\* The objects `help' and `quit' make their text in the vm they are given; a
\* method call gives them none.
pythonix_type__str__(m, t, vmGiven) ==
  LET v == m.obj[t].value
      after == [m EXCEPT !.quitted = @ \/ v.str = "quit"]
  IN  IF v.str # "own" /\ ~vmGiven THEN Result(after, NULL)
      ELSE pythonix_type_new(after, Shown(v), Anon)

\* The methods that take no argument, looked up by name.
pythonix_type_method_call(m, t, method, vmGiven) ==
  CASE method = "__copy__" -> pythonix_type__copy__(m, t, Anon)
    [] method = "__str__"  -> pythonix_type__str__(m, t, vmGiven)
    [] OTHER               -> Result(m, NULL)

pythonix_obj_identify(m, e) ==
  IF e.kind \in {"int", "str"} THEN pythonix_type_new(m, e.value, Anon)
  ELSE LET t == pythonix_vm_get_type(m, e.name)
       IN  IF t = NULL \/ e.kind = "var" THEN Result(m, t)
           ELSE pythonix_type_method_call(m, t, e.method, FALSE)

Variable(x) == [kind |-> "var", name |-> x]
Called(x, method) == [kind |-> "method", name |-> x, method |-> method]

-----------------------------------------------------------------------------
(* The lines. *)

Becomes(m) ==
  /\ names' = m.names /\ types' = m.types /\ obj' = m.obj /\ quitted' = m.quitted

\* A line leads to state `after'; the collector comes next.
Line(after) ==
  /\ place' = "gc"
  /\ \E m \in {after} : Becomes(m) /\ left' = Len(m.types)

\* x = e
pythonix_assign_any(x, e) ==
  /\ place = "read"
  /\ \E r \in {pythonix_obj_identify(vm, e)} :
       Line(IF r.t = NULL THEN r.vm ELSE pythonix_type__copy__(r.vm, r.t, x).vm)

\* x
pythonix_print_var(x) ==
  /\ place = "read"
  /\ \E r \in {pythonix_obj_identify(vm, Variable(x))} :
       Line(IF r.t = NULL THEN r.vm
            ELSE pythonix_type_method_call(r.vm, r.t, "__str__", TRUE).vm)

\* x.method(), which shows what it returns.
pythonix_method_call(x, method) ==
  /\ place = "read"
  /\ \E r \in {pythonix_obj_identify(vm, Called(x, method))} :
       LET self == pythonix_vm_get_type(vm, x)
           shown == self # NULL /\ obj[self].value.type = "str" /\ method = "__str__"
       IN  Line(IF r.t = NULL \/ shown THEN r.vm
                ELSE pythonix_type_method_call(r.vm, r.t, "__str__", FALSE).vm)

\* A string that is repeated is copied first.
CopiesFirst(v, op, w) == op = "__mul__" /\ v.type = "str" /\ w.type = "int" /\ w.data >= 1

\* x op= e, in place.
pythonix_var_operator_any(x, op, e) ==
  /\ place = "read"
  /\ \E self \in {pythonix_vm_get_type(vm, x)} :
       IF self = NULL THEN Line(vm)
       ELSE \E r \in {pythonix_obj_identify(vm, e)} :
         LET v == obj[self].value
             w == r.vm.obj[r.t].value
             m == IF CopiesFirst(v, op, w) THEN pythonix_type__copy__(r.vm, self, Anon).vm
                  ELSE r.vm
         IN  IF r.t = NULL THEN Line(r.vm)
             ELSE IF DivisionFails(v, op, w)
             THEN place' = "panic" /\ Becomes(r.vm) /\ UNCHANGED left
             ELSE Line([m EXCEPT !.obj[self].value = Operated(v, op, w)])

\* A call or a definition of a function, and what is not a line at all.
pythonix_not_impl == place = "read" /\ Line(vm)

-----------------------------------------------------------------------------
(* The collector and the end. *)

\* Mutant: the entry stays in the array.
StaysInArray(s, i) == s
karray_pop(s, i) == RemoveAt(s, i)

\* One turn of the loop in pythonix_vm_gc, from the last object to the first.
pythonix_vm_gc ==
  /\ place = "gc" /\ left > 0
  /\ left' = left - 1
  /\ LET t == types[left]
         o == obj[t]
         named == o.name # Anon /\ khashmap_get(names, Hash[o.name]) = t
     IN  IF o.refs <= 0
         THEN /\ names' = IF named THEN khashmap_set(names, Hash[o.name], NULL) ELSE names
              /\ obj' = [obj EXCEPT ![t] = NoObject]
              /\ types' = karray_pop(types, left)
         ELSE UNCHANGED <<names, obj, types>>
  /\ UNCHANGED <<place, quitted>>

NextLine ==
  /\ place = "gc" /\ left = 0
  /\ place' = IF quitted THEN "quit" ELSE "read"
  /\ UNCHANGED <<names, types, obj, quitted, left>>

\* pythonix_vm_new and pythonix_interpreter_init
Fresh ==
  LET empty == [names |-> khashmap_new, types |-> <<>>,
                obj |-> [t \in Addr |-> NoObject], quitted |-> FALSE]
  IN  pythonix_type_new(pythonix_type_new(empty, Global("help"), "help").vm,
                        Global("quit"), "quit").vm

\* pythonix_vm_free frees the array and the map.  The objects that are left go
\* with the task; then somebody starts the interpreter again.
pythonix_vm_free ==
  /\ place = "quit" /\ place' = "read" /\ Becomes(Fresh) /\ left' = 0

Init ==
  /\ names = Fresh.names /\ types = Fresh.types /\ obj = Fresh.obj
  /\ quitted = FALSE /\ place = "read" /\ left = 0

Next ==
  \/ \E x \in Typed : pythonix_print_var(x)
  \/ \E x \in Typed, e \in Exprs : pythonix_assign_any(x, e)
  \/ \E x \in Typed, method \in TypedMethods : pythonix_method_call(x, method)
  \/ \E x \in Typed, op \in TypedOps, e \in Exprs : pythonix_var_operator_any(x, op, e)
  \/ pythonix_not_impl
  \/ pythonix_vm_gc \/ NextLine \/ pythonix_vm_free

Spec == Init /\ [][Next]_vars

-----------------------------------------------------------------------------
Live == {t \in Addr : obj[t] # NoObject}

\* Types; the array holds each object once.
TypeOK ==
  /\ obj \in [Addr -> Objects \cup {NoObject}]
  /\ types \in Seq(Live) /\ IsInjective(types) /\ Len(types) = Cardinality(Live)
  /\ place \in Places /\ quitted \in BOOLEAN /\ left \in 0 .. Len(types)

\* Whatever was assigned, replaced and collected, a name leads to an object that
\* is alive, has that name's hash and is not garbage.  (The collector's own
\* check, which would set the name to NULL, never has anything to do.)
NamesLeadToObjects ==
  \A x \in Names :
    LET t == khashmap_get(names, Hash[x])
    IN  t # NULL => /\ t \in Live /\ obj[t].refs = 1
                    /\ obj[t].name # Anon /\ Hash[obj[t].name] = Hash[x]

\* After the collector ran, every object is the value of a variable: temporaries
\* and replaced values are freed, once, although the loop removes entries from
\* the array it walks over.
OnlyVariablesLive ==
  place = "read" => Live = {khashmap_get(names, Hash[x]) : x \in Names} \ {NULL}

\* The tree finds what it holds: its keys are in order and no key is there twice.
\* ktree_del of any key would leave it so, with all the other keys.
NamesAreSorted ==
  place = "read" =>
    /\ Sorted(names)
    /\ \A k \in KeysOf(names) :
         LET t == ktree_del(names, k) IN Sorted(t) /\ KeysOf(t) = KeysOf(names) \ {k}

Env == INSTANCE PyEnv WITH
         env <- [h \in {Hash[x] : x \in Names} |->
                   IF khashmap_get(names, h) = NULL THEN None
                   ELSE obj[khashmap_get(names, h)].value]
\* Objects, reference counts, in-place operators and the map together behave like
\* variables with values: no assignment makes two variables share an object.
KeepsVariables == Env!Spec
=============================================================================
