------------------------------ MODULE MCAgent ------------------------------
(***************************************************************************)
(* Small instances of IngestionAgent for TLC: an object type that inherits *)
(* a property from a shared one, two data types, two connections.          *)
(***************************************************************************)
EXTENDS IngestionAgent, TLC

CONSTANTS obj, prop, text, number, c1, c2

Text    == [conn |-> Unbound, refs |-> {}, sort |-> text, agrees |-> {}]
Number  == [Text EXCEPT !.sort = number]
Reading == [Text EXCEPT !.conn = c1]
Heir    == [Text EXCEPT !.refs = {prop}, !.agrees = {<<prop, text>>}]
(* c2 is a connection that was deleted since staging was bound to it.      *)
Stale   == [Text EXCEPT !.conn = c2]

Holding(at, other) == [version |-> "v", defs |-> (obj :> at @@ prop :> other)]

Sent     == {Text, Number, Reading, Heir}
Uploads  == {Holding(Heir, Text)}
Stagings == {EmptyRegistry, Holding(Heir, Text), Holding(Reading, Absent), Holding(Stale, Absent)}
=============================================================================
