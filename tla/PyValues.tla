------------------------------- MODULE PyValues -------------------------------
(***************************************************************************)
(* The values of the interpreter in kernel/src/pythonix and what can be    *)
(* typed about them.  Integers have IntBits bits; a string is its length,  *)
(* MaxLen standing for every longer one.                                   *)
(***************************************************************************)
EXTENDS Integers, FiniteSets

CONSTANTS IntBits,      \* 64
          MaxLen,
          Names,        \* the names of variables
          Hash,         \* khashmap_hash_string of each name
          Typed,        \* what is typed: names,
          TypedMethods, \* methods and
          TypedOps,     \* operators,
          Literals,     \* integers
          Texts         \* and lengths of strings

\* Methods that take an argument; they are not called without one.
Operators == {"__add__", "__sub__", "__mul__", "__div__"}

ASSUME ValuesAssumption ==
  /\ IntBits \in Nat \ {0, 1} /\ MaxLen \in Nat
  /\ {"help", "quit"} \subseteq Names /\ IsFiniteSet(Names)
  /\ Hash \in [Names -> Nat] /\ Hash["help"] # Hash["quit"]
  /\ Texts \subseteq 0 .. MaxLen /\ Typed \subseteq Names
  /\ TypedMethods \cap Operators = {} /\ TypedOps \subseteq Operators

PowerOfTwo[n \in 0 .. IntBits] == IF n = 0 THEN 1 ELSE 2 * PowerOfTwo[n - 1]
IntMin == -PowerOfTwo[IntBits - 1]
Ints == IntMin .. -IntMin - 1
ASSUME LiteralsAssumption == Literals \subseteq Ints

\* `str' is the __str__ method of the value: that of its type, or one that
\* pythonix_interpreter_init gives to the objects `help' and `quit'.
Value(type, data, str) == [type |-> type, data |-> data, str |-> str]
Global(str) == Value("global", 0, str)
IntValue(n) == Value("int", n, "own")
StrValue(n) == Value("str", n, "own")
Values == {IntValue(n) : n \in Ints} \cup {StrValue(n) : n \in 0 .. MaxLen}
            \cup {Global(s) : s \in {"own", "help", "quit"}}

\* A copy has the methods of the type only.
Copied(v) == Value(v.type, v.data, "own")

-----------------------------------------------------------------------------
\* int64_t arithmetic, and the division that drops the remainder.
Wrap(n) == ((n - IntMin) % PowerOfTwo[IntBits]) + IntMin
Capped(n) == IF n > MaxLen THEN MaxLen ELSE n
Magnitude(n) == IF n < 0 THEN -n ELSE n
Quotient(m, n) ==
  LET q == Magnitude(m) \div Magnitude(n) IN IF (m < 0) = (n < 0) THEN q ELSE -q

\* The divisions that the processor answers with an exception.
DivisionFails(v, op, w) ==
  /\ op = "__div__" /\ v.type = "int" /\ w.type = "int"
  /\ w.data = 0 \/ (v.data = IntMin /\ w.data = -1)

\* v op= w.  What has no such method, or does not take such a w, is left alone;
\* a string times 0 or less is the string itself.
Operated(v, op, w) ==
  CASE v.type = "int" /\ w.type = "int" /\ op = "__add__" -> IntValue(Wrap(v.data + w.data))
    [] v.type = "int" /\ w.type = "int" /\ op = "__sub__" -> IntValue(Wrap(v.data - w.data))
    [] v.type = "int" /\ w.type = "int" /\ op = "__mul__" -> IntValue(Wrap(v.data * w.data))
    [] v.type = "int" /\ w.type = "int" /\ op = "__div__" -> IntValue(Quotient(v.data, w.data))
    [] v.type = "str" /\ w.type = "str" /\ op = "__add__" -> StrValue(Capped(v.data + w.data))
    [] v.type = "str" /\ w.type = "int" /\ op = "__mul__" ->
         StrValue(IF w.data < 1 THEN v.data ELSE Capped(v.data * w.data))
    [] OTHER -> v

\* The text that __str__ makes of a value; integers here have one digit.
Shown(v) ==
  StrValue(CASE v.type = "int"    -> Capped(IF v.data < 0 THEN 2 ELSE 1)
             [] v.type = "str"    -> Capped(v.data + 2)
             [] v.type = "global" -> Capped(IF v.str = "own" THEN 6 ELSE 40))

-----------------------------------------------------------------------------
\* The expressions pythonix_obj_identify tells apart.
Exprs ==
  {[kind |-> "int", value |-> IntValue(n)] : n \in Literals}
  \cup {[kind |-> "str", value |-> StrValue(n)] : n \in Texts}
  \cup {[kind |-> "var", name |-> x] : x \in Typed}
  \cup {[kind |-> "method", name |-> x, method |-> m] : x \in Typed, m \in TypedMethods}
=============================================================================
