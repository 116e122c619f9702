--------------------------- MODULE MCCommandAssembly --------------------------
(* Small instances of CommandAssembly for TLC.                             *)
EXTENDS CommandAssembly

Plain    == [qos |-> 0, dup |-> FALSE, retain |-> FALSE, packetId |-> 0]
Repeated == [qos |-> 1, dup |-> TRUE, retain |-> FALSE, packetId |-> 1]
Retained == [Plain EXCEPT !.retain = TRUE]
Exactly  == [qos |-> 2, dup |-> FALSE, retain |-> FALSE, packetId |-> 1]

Fragment(i, bytes, total, meta) ==
  [index |-> i, len |-> Len(bytes), total |-> total, payload |-> bytes, meta |-> meta]

(* Cuts of messages of up to two bytes, the most allowed, and of more.     *)
Cuts ==
  {Fragment(i, bytes, total, meta) :
     i \in 0 .. 2, bytes \in {<<>>, <<"a">>, <<"b">>}, total \in {0, 2},
     meta \in {Plain, Repeated}}
  \cup {Fragment(0, <<"a", "b">>, 2, Plain), Fragment(0, <<"a">>, 3, Plain),
        Fragment(1, <<"b", "a">>, 3, Plain), Fragment(0, <<"b", "a", "b">>, 4, Plain)}

NotAllowed == {Fragment(0, <<"a">>, 2, Retained), Fragment(0, <<"a">>, 2, Exactly),
               Fragment(1, <<"a">>, 2, Retained)}

(* A null pointer, and sizes whose sum is out of range.                    *)
Odd == {[Fragment(0, <<>>, 2, Plain) EXCEPT !.len = 2],
        [Fragment(1, <<>>, 2, Plain) EXCEPT !.len = 1],
        Fragment(6, <<"a", "b">>, 0, Plain), Fragment(6, <<"a", "b", "a">>, 2, Plain),
        Fragment(1, <<"a", "b", "a", "b", "a", "b", "a">>, 2, Plain)}

AnyFragment == Cuts \cup NotAllowed \cup Odd
===============================================================================
