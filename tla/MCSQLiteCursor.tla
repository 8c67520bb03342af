--------------------------- MODULE MCSQLiteCursor ---------------------------
(* Results whose rows fill a small window in different ways. *)
EXTENDS SQLiteCursor

Field(type, size, data) == [type |-> type, size |-> size, data |-> data]

\* a blob and a string; an empty blob and an integer; nulls; a row for which a window is small
Full(n) == <<Field("blob", 6, n), Field("string", 2, n)>>
Slim(n) == <<Field("blob", 0, 0), Field("integer", 0, n)>>
Null == <<Field("null", 0, 0), Field("null", 0, 0)>>
Huge(n) == <<Field("blob", 30, n), Field("float", 0, n)>>

MCResults ==
    {<<>>,
     <<Huge(1)>>,
     <<Full(1), Slim(2), Null, Full(4)>>,
     <<Slim(1), Slim(2), Slim(3), Slim(4), Slim(5)>>,
     <<Full(1), Full(2), Full(3), Full(4), Full(5)>>,
     <<Slim(1), Slim(2), Slim(3), Huge(4), Slim(5)>>,
     <<Slim(1), Slim(2), Slim(3), Huge(4), Huge(5)>>}

============================================================================
