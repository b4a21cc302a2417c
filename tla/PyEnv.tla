-------------------------------- MODULE PyEnv --------------------------------
(***************************************************************************)
(* What the interpreter promises: variables have values, not objects.  An  *)
(* assignment copies a value, an operator changes one variable, and no     *)
(* other variable ever changes.  Variables are told apart by the hashes of *)
(* their names only.                                                       *)
(***************************************************************************)
EXTENDS PyValues

CONSTANT None           \* no value

VARIABLE env            \* env[h]: the value of the variable with hash h, or None

Hashes == {Hash[x] : x \in Names}

FirstEnv == [h \in Hashes |-> IF h = Hash["quit"] THEN Global("quit")
                              ELSE IF h = Hash["help"] THEN Global("help") ELSE None]

\* The value of an expression, None for one that raises an error.
ValueOf(e) ==
  IF e.kind \in {"int", "str"} THEN e.value
  ELSE LET v == env[Hash[e.name]]
       IN  CASE v = None -> None
             [] v # None /\ e.kind = "var" -> v
             [] v # None /\ e.kind = "method" ->
                  CASE e.method = "__copy__" -> Copied(v)
                    [] e.method = "__str__" /\ v.str = "own" -> Shown(v)
                    [] OTHER -> None

Worth == {ValueOf(e) : e \in Exprs} \ {None}

OthersKeepTheirs(h) == \A g \in Hashes \ {h} : env'[g] = env[g]

Assign(h) ==
  /\ OthersKeepTheirs(h)
  /\ \E w \in Worth : env'[h] = Copied(w)

Operate(h) ==
  /\ OthersKeepTheirs(h)
  /\ env[h] # None
  /\ \E w \in Worth, op \in TypedOps :
       ~DivisionFails(env[h], op, w) /\ env'[h] = Operated(env[h], op, w)

Restart == env' = FirstEnv

Init == env = FirstEnv
Next == Restart \/ \E h \in Hashes : Assign(h) \/ Operate(h)

Spec == Init /\ [][Next]_env
=============================================================================
