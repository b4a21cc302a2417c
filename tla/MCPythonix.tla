------------------------------ MODULE MCPythonix ------------------------------
(***************************************************************************)
(* The interpreter with `help', `quit' and two more names that have the    *)
(* same hash: khashmap_hash_string folds a name onto HashBytes bytes, and  *)
(* with two bytes three letters are enough for what takes nine with eight. *)
(***************************************************************************)
EXTENDS Pythonix, Bitwise

HashBytes == 2

\* khashmap_hash_string: byte j of the hash collects str[i] + i for i = j modulo
\* HashBytes; it is then read as a little-endian number.
khashmap_hash_string(str) ==
  LET byte[j \in 0 .. HashBytes - 1, l \in 0 .. Len(str)] ==
        IF l = 0 THEN 0
        ELSE IF (l - 1) % HashBytes = j
        THEN byte[j, l - 1] ^^ ((str[l] + l - 1) % 256)
        ELSE byte[j, l - 1]
  IN  byte[0, Len(str)] + 256 * byte[1, Len(str)]

\* The letters of the names, in ASCII.
Spelled == [help |-> <<104, 101, 108, 112>>, quit |-> <<113, 117, 105, 116>>,
            aad |-> <<97, 97, 100>>, daa |-> <<100, 97, 97>>]

\* The hashes, and that they are what the function says.
MCHash == [help |-> 5382, quit |-> 282, aad |-> 25095, daa |-> 25095]
ASSUME HashAssumption == \A x \in Names : Hash[x] = khashmap_hash_string(Spelled[x])

MCNames == DOMAIN Spelled
MCSentinel == 2 ^ (8 * HashBytes - 1) - 1
=============================================================================
