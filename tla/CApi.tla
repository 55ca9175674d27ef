-------------------------------- MODULE CApi --------------------------------
(***************************************************************************)
(* The C functions (bkndb-ffi/src/c_api.rs).  Each clears the caller's     *)
(* error slot, checks its handle, converts its arguments one after the     *)
(* other, calls one method and turns the answer into what C can hold: a    *)
(* status, a string or a handle, owned by the caller.                      *)
(*                                                                         *)
(* A function is a record: the handle it needs, its arguments in the order *)
(* they are converted, and what it returns.  A text argument is "null",    *)
(* "invalid" (not UTF-8), "empty", "malformed" (not JSON), or the shape of *)
(* the JSON in it.                                                         *)
(***************************************************************************)
EXTENDS Integers, SequencesExt

CONSTANT IntMax  \* the largest i64, scaled down

ASSUME IntMaxAssumption == IntMax \in Nat \ {0}

Texts == {"null", "invalid", "empty", "malformed", "scalar", "array", "object"}

\* c_to_str: nothing for a null pointer and for bytes that are not UTF-8.
IsStr(text) == text \notin {"null", "invalid"}

\* parse_props_json, parse_params_json, parse_unset_keys_json: a text that is
\* not there, not UTF-8 or empty stands for no properties, parameters or keys.
Absent(text) == text \in {"null", "invalid", "empty"}
PropsOk(text) == Absent(text) \/ text = "object"
ParamsOk(text) == Absent(text) \/ text \in {"array", "object"}
KeysOkAny(text) == Absent(text) \/ text \in {"array", "object"}
KeysOk(text) == Absent(text) \/ text = "array"

\* Conversion of one argument: "str" must be there, a vector must not be
\* empty; a metric, a direction and an edge type always convert.
Converts(arg, text) ==
    CASE arg = "str" -> IsStr(text)
      [] arg = "vector" -> text \notin {"null", "empty"}
      [] arg = "props" -> PropsOk(text)
      [] arg = "params" -> ParamsOk(text)
      [] arg = "keys" -> KeysOk(text)
      [] arg = "lenient" -> TRUE

-----------------------------------------------------------------------------
\* The functions.
Fn(handle, args, gives) == [handle |-> handle, args |-> args, gives |-> gives]

bkndb_open == Fn("none", <<"str">>, "handle")
bkndb_in_memory == Fn("none", <<>>, "handle")
bkndb_close == Fn("engine", <<>>, "status")
bkndb_compact == Fn("engine", <<>>, "status")
bkndb_backup == Fn("engine", <<"str">>, "status")
bkndb_stats == Fn("engine", <<>>, "string")
bkndb_sql == Fn("engine", <<"str", "params">>, "string")
bkndb_graph_query == Fn("engine", <<"str", "params">>, "string")
bkndb_create_node == Fn("engine", <<"str", "props">>, "id")
bkndb_get_node == Fn("engine", <<>>, "optional")
bkndb_delete_node == Fn("engine", <<>>, "status")
bkndb_update_node == Fn("engine", <<"props", "keys">>, "status")
bkndb_create_edge == Fn("engine", <<"str", "props">>, "id")
bkndb_get_edge == Fn("engine", <<>>, "optional")
bkndb_delete_edge == Fn("engine", <<>>, "id")
bkndb_neighbors == Fn("engine", <<"lenient">>, "string")
bkndb_create_fulltext_index == Fn("engine", <<"str", "str">>, "status")
bkndb_search_text == Fn("engine", <<"str", "str", "str">>, "string")
bkndb_create_vector_index == Fn("engine", <<"str", "str", "lenient">>, "status")
bkndb_search_vector == Fn("engine", <<"vector", "str", "str", "lenient">>, "string")
bkndb_begin_transaction == Fn("engine", <<>>, "handle")
bkndb_tx_sql == Fn("tx", <<"str", "params">>, "string")
bkndb_tx_commit == Fn("tx", <<>>, "status")
bkndb_tx_rollback == Fn("tx", <<>>, "status")

Functions ==
    {bkndb_open, bkndb_in_memory, bkndb_close, bkndb_compact, bkndb_backup, bkndb_stats, bkndb_sql,
     bkndb_graph_query, bkndb_create_node, bkndb_get_node, bkndb_delete_node, bkndb_update_node,
     bkndb_create_edge, bkndb_get_edge, bkndb_delete_edge, bkndb_neighbors, bkndb_create_fulltext_index,
     bkndb_search_text, bkndb_create_vector_index, bkndb_search_vector, bkndb_begin_transaction,
     bkndb_tx_sql, bkndb_tx_commit, bkndb_tx_rollback}

\* What the caller finds: the returned value ("null" is the null pointer, "-1"
\* the failed status), the error slot ("none" if the caller gave no slot), the
\* out parameter, and whether the method ran.  "stale" is what was there.
Found(ret, slot, failed, out, ran) ==
    [ret |-> ret, err |-> IF slot THEN IF failed THEN "message" ELSE "null" ELSE "none",
     out |-> out, ran |-> ran]
Refused(fn, slot, ran) ==
    Found(IF fn.gives \in {"status", "id"} THEN "-1" ELSE "null", slot, TRUE, "stale", ran)
Answered(fn, slot, wantsOut, answer) ==
    Found(CASE fn.gives \in {"status", "id"} -> "0"
            [] fn.gives = "optional" /\ answer = "nothing" -> "\"null\""
            [] OTHER -> "owned",
          slot, FALSE, IF fn.gives = "id" /\ wantsOut THEN answer ELSE "stale", TRUE)

\* One call: c.live is the handle, c.texts the arguments, c.answer what the
\* method answers.
CallFn(fn, c) ==
    IF (fn.handle = "none" \/ c.live) /\ \A i \in DOMAIN fn.args : Converts(fn.args[i], c.texts[i])
    THEN IF c.answer = "error" THEN Refused(fn, c.slot, TRUE)
         ELSE Answered(fn, c.slot, c.wantsOut, c.answer)
    ELSE Refused(fn, c.slot, FALSE)

Calls(fn) ==
    {c \in [live : BOOLEAN, slot : BOOLEAN, wantsOut : BOOLEAN,
            texts : [DOMAIN fn.args -> Texts], answer : {"value", "nothing", "error"}] :
        /\ fn.handle = "none" => c.live
        /\ c.answer = "nothing" => fn.gives = "optional"}

-----------------------------------------------------------------------------
\* json_to_prop and prop_to_json.  A value is a tree: a function from paths (the
\* positions and keys that lead to a node; the root is at <<>>) to nodes.  The
\* elements of a list, a map and a byte string are the nodes below it.  A JSON
\* number is an integer or a float; "inf" stands for the floats JSON cannot
\* write.
JsonNull == [k |-> "null", v |-> 0]

NodeFromJson(j) ==
    [k |-> CASE j.k = "arr" -> "list"
             [] j.k = "obj" -> "map"
             [] j.k = "int" /\ j.v \notin -IntMax - 1..IntMax -> "float"
             [] OTHER -> j.k,
     v |-> j.v]
NodeToJson(p) ==
    IF p.k = "inf" THEN JsonNull
    ELSE [k |-> CASE p.k \in {"list", "bytes"} -> "arr"
                  [] p.k = "map" -> "obj"
                  [] p.k \in {"byte", "timestamp"} -> "int"
                  [] p.k = "uuid" -> "str"
                  [] OTHER -> p.k,
          v |-> p.v]
json_to_prop(j) == [at \in DOMAIN j |-> NodeFromJson(j[at])]
prop_to_json(p) == [at \in DOMAIN p |-> NodeToJson(p[at])]

\* The values there are: nodes are below lists, maps and byte strings only.
Containers == {"list", "map", "bytes"}
NodeKinds == Containers \cup {"null", "bool", "int", "float", "inf", "str", "byte", "timestamp", "uuid"}
IsValue(p) ==
    \A at \in DOMAIN p :
        /\ p[at] \in [k : NodeKinds, v : Int]
        /\ at \in Seq(Nat) /\ (at # <<>> => Front(at) \in DOMAIN p /\ p[Front(at)].k \in Containers)
        /\ p[at].k = "int" => p[at].v \in -IntMax - 1..IntMax

-----------------------------------------------------------------------------
\* A caller can tell from the returned value alone whether a call failed, and
\* a failed call has touched nothing of the caller's but the error slot; a
\* call that succeeds left the slot null.  The method ran exactly when the
\* handle and all required texts were there and no JSON had the wrong shape.
CallContract(fn, c) ==
    LET r == CallFn(fn, c)
        failed == r.ret \in {"-1", "null"}
    IN  /\ c.slot => (failed <=> r.err = "message") /\ (~failed <=> r.err = "null")
        /\ failed => r.out = "stale"
        /\ ~failed => r.ran
        /\ r.ran <=> /\ fn.handle # "none" => c.live
                     /\ \A i \in DOMAIN fn.args :
                           /\ fn.args[i] = "str" => IsStr(c.texts[i])
                           /\ fn.args[i] = "vector" => c.texts[i] \notin {"null", "empty"}
                           /\ fn.args[i] \in {"props", "params", "keys"} =>
                                  /\ c.texts[i] \notin {"malformed", "scalar"}
                                  /\ fn.args[i] = "props" => c.texts[i] # "array"
                                  /\ fn.args[i] = "keys" => c.texts[i] # "object"

\* Every kind of value but a float that JSON cannot write comes back with the
\* same content, lists and maps with the same elements; byte strings come back
\* as lists.  A value that has been through JSON once no longer changes.
JsonStable(p) ==
    LET once == json_to_prop(prop_to_json(p)) IN
    /\ json_to_prop(prop_to_json(once)) = once
    /\ \A at \in DOMAIN p :
           /\ p[at].k \in {"null", "bool", "int", "float", "str", "list", "map"} => once[at] = p[at]
           /\ p[at].k = "bytes" => once[at].k = "list"
           /\ at # <<>> => once[Front(at)].k \in {"list", "map"}

=============================================================================
