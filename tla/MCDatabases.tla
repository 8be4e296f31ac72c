----------------------------- MODULE MCDatabases -----------------------------
(* Instances of Databases for TLC. *)
EXTENDS Databases, TLC

Result(type, size, bytes) == [type |-> type, size |-> size, bytes |-> bytes]

\* One ends like the marks begin, and one holds the end mark.
SomeResults ==
    {Result("addError", 1, <<3, X>>), Result("addFailure", 1, <<X, 2>>),
     Result("socket_message", 2, <<5>>)}
\* The end mark stands within the record of the first.
UnmarkedResults ==
    {Result("addError", 1, <<3, X, 2, 4>>), Result("socket_message", 2, <<5>>)}
SomeTypes == {None, "socket_message"}
SomeStarts == {None, 1, 2}
SomeSizes == {None, 1, 2}
SomeChunks == {3, 7}
=============================================================================
