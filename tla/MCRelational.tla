---------------------------- MODULE MCRelational ----------------------------
(***************************************************************************)
(* Relational with an automatic key: schemas with and without indexes,     *)
(* with UNIQUE and NOT NULL, and with columns dropped; inserts that mix    *)
(* explicit and automatic keys; a string that can be no index key; vectors *)
(* of two dimensions.  Integers are so small that the counter passes       *)
(* i64::MAX, which is key 2.                                               *)
(***************************************************************************)
EXTENDS Relational, TLC

CONSTANTS x, y, t, u

MCPks == {-3, 1, 2}
WithNul == <<t, u, t>>
MCTexts == {<<t>>, WithNul}
MCUnkeyable == {WithNul}
MCVecs == {<<1>>, <<0>>, <<1, 1>>}

Cols(a, s, v) == [c \in Columns |-> CASE c = "a" -> a [] c = "s" -> s [] c = "v" -> v]
NoDefaults == Cols(Absent, Absent, Absent)
Plain == [cols |-> Columns, notNull |-> {}, indexed |-> {}, unique |-> {}, dflt |-> NoDefaults]

MCSchemas == {
    Plain,
    [Plain EXCEPT !.indexed = {"a", "s"}, !.unique = {"a"}],
    [Plain EXCEPT !.indexed = {"a"}, !.unique = {"a"}, !.cols = {"a", "v"}],
    [Plain EXCEPT !.cols = {"s"}, !.notNull = {"s"}, !.dflt["s"] = <<t>>],
    [Plain EXCEPT !.cols = {"a", "s"}, !.indexed = {"s"}]}

At(pk, row) == [pk |-> pk, row |-> row]
MCBatches == {
    <<At(None, Cols(x, <<t>>, <<1>>)), At(2, Cols(y, Absent, <<1>>))>>,
    <<At(-3, Cols(y, <<t>>, <<1>>)), At(1, Cols(x, WithNul, <<1, 1>>))>>,
    <<At(2, Cols(y, Null, <<0>>)), At(None, Cols(y, Absent, <<1>>))>>}

\* A row with the first key and one without a key, for AutoKeyFree.
MCKeyBatches == {<<At(1, Cols(x, <<t>>, Absent)), At(None, Cols(y, <<t>>, Absent))>>}

MCChanges == {Cols(x, Absent, Absent), Cols(Null, WithNul, <<1, 1>>)}

=============================================================================
