--------------------------- MODULE MCFileTransfer ---------------------------
(* A small instance of FileTransfer: the sides have different versions of   *)
(* f1; f2 is on the server only.  A temporary file may be left from another *)
(* version, shorter or longer than the file.                                *)
EXTENDS FileTransfer

CONSTANTS f1, f2, b1, b2, b3

MCReal ==
    [viewer |-> [x \in File |-> IF x = f1 THEN <<b1, b2>> ELSE None],
     server |-> [x \in File |-> IF x = f1 THEN <<b1, b3>> ELSE <<b2>>]]
NoTemp == [x \in File |-> None]
MCTemp ==
    {[viewer |-> NoTemp, server |-> NoTemp]} \cup
    {[s \in Side |-> [NoTemp EXCEPT ![f1] = t]] : t \in {<<b1>>, <<b2, b3, b3>>}}
MCLists == {<<f1>>, <<f1, f2>>, <<f2, f1>>}
=============================================================================
