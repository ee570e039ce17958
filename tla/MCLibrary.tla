----------------------------- MODULE MCLibrary -----------------------------
\* Library for TLC: three keys that collide and one that does not, with values
\* of their own; bin names of which one begins another; an integer that fits a
\* byte, a negative one, a string, and the two integers of an MC_INCR.
EXTENDS Library

MCValue == [k \in Key |-> CASE k = 0 -> {"a", "b"} [] k = 2 -> {"c"} [] OTHER -> {"d"}]

MCName == {<<"a">>, <<"a", "b">>, <<"c">>}
Word(high, low) == [type |-> "INT", bytes |-> [i \in 1 .. 8 |-> IF i < 8 THEN high ELSE low]]
MCData == [n \in Name |->
    CASE n = <<"a">> -> {Word(0, 127), Word(255, 254)}
      [] n = <<"c">> -> {[type |-> "BLOB", bytes |-> [i \in 1 .. 16 |-> i]]}
      [] OTHER -> {[type |-> "STR", bytes |-> <<1, 2>>]}]
MCKeyData == {Word(0, 200), [type |-> "STR", bytes |-> <<7>>]}

=============================================================================
