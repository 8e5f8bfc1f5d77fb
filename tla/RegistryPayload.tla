-------------------------- MODULE RegistryPayload --------------------------
(***************************************************************************)
(* What one row of the registries table holds, and the pure edits of       *)
(* registry/crud.py and registry/imports.py on it.                         *)
(*                                                                         *)
(* A registry is a version string and, per RID, a definition or nothing.   *)
(* Of a definition four things matter to the life cycle, those by which a  *)
(* change of one definition can make another one invalid: the connection   *)
(* its asset mapping reads from, the RIDs it refers to, its sort (of a     *)
(* shared property the data type, of an interface the category), and the   *)
(* sort it asks of those it refers to: that of the shared properties its   *)
(* properties inherit from, and of the interfaces it extends.              *)
(***************************************************************************)
EXTENDS Naturals, FiniteSets

CONSTANTS Rid,          \* RIDs of definitions
          Mappable,     \* those of object and link types: they carry a mapping
          Conn,         \* ids of rows of the connections table
          Unbound,      \* read_connection_id = ""
          Sort,         \* data types and interface categories
          Definition,   \* the definitions that clients send
          Absent,       \* the RID has no definition
          Incoming      \* the whole registries that clients import

ASSUME PayloadAssumption ==
    /\ Mappable \subseteq Rid
    /\ Unbound \notin Conn
    /\ Absent \notin [conn : Conn \cup {Unbound}, refs : SUBSET Rid,
                      sort : Sort, agrees : SUBSET (Rid \X Sort)]

(* OntologyRegistry.version is a free string. The code tells apart the     *)
(* sentinel of an unused slot, the empty string, and any other.            *)
EmptyVersion == "__empty__"
Label == {EmptyVersion, "", "v"}

(* agrees: pairs <<r, s>>, "r is to be of sort s", for some r of refs.      *)
Stored == {d \in [conn : Conn \cup {Unbound}, refs : SUBSET Rid,
                  sort : Sort, agrees : SUBSET (Rid \X Sort)] :
              \A a \in d.agrees : a[1] \in d.refs}

ASSUME DefinitionAssumption == Definition \subseteq Stored

Payload == [version : Label, defs : [Rid -> Stored \cup {Absent}]]

ASSUME IncomingAssumption == Incoming \subseteq Payload

EmptyRegistry == [version |-> EmptyVersion, defs |-> [r \in Rid |-> Absent]]

Present(p) == {r \in Rid : p.defs[r] # Absent}

(* Connections that the validator and delete_connection look for: those of *)
(* object and link types.                                                  *)
Bindings(p) ==
    {c \in Conn : \E r \in Present(p) \cap Mappable : p.defs[r].conn = c}

(* The cross-definition checks of validate() that no connection can change.*)
(* References resolve; a property has the type of the shared property it   *)
(* inherits from, an interface the category of those it extends; and no    *)
(* interface extends itself, directly or not: in any group of definitions  *)
(* some member asks nothing of the group.                                  *)
Resolved(p) == \A r \in Present(p) : p.defs[r].refs \subseteq Present(p)

Agreeing(p) ==
    \A r \in Present(p) : \A a \in p.defs[r].agrees :
        a[1] \in Present(p) => p.defs[a[1]].sort = a[2]

Acyclic(p) ==
    \A S \in SUBSET Present(p) :
        S # {} => \E r \in S : \A a \in p.defs[r].agrees : a[1] \notin S

WellFormed(p) == Resolved(p) /\ Agreeing(p) /\ Acyclic(p)

(* validate(registry, connection_ids) finds no ERROR.                      *)
Valid(p, ids) == WellFormed(p) /\ Bindings(p) \subseteq ids

(* find_referrers: who would dangle if r went away.                        *)
Referrers(p, r) == {q \in Present(p) : r \in p.defs[q].refs}

(* put_<kind>: upsert. The version string of the base is kept.             *)
Put(p, r, d) == [p EXCEPT !.defs[r] = d]

(* delete_<kind>, once no referrer is left. Deleting what is absent is a   *)
(* no-op on the payload, and still saved.                                  *)
Remove(p, r) == [p EXCEPT !.defs[r] = Absent]

(* set_asset_mapping, for r present and mappable.                          *)
Bind(p, r, c) == [p EXCEPT !.defs[r].conn = c]

Merge(p, q) ==
    [version |-> IF q.version = "" THEN p.version ELSE q.version,
     defs    |-> [r \in Rid |-> IF r \in Present(q) THEN q.defs[r] ELSE p.defs[r]]]

(* import_into_registry before its validation.                             *)
Import(p, q, mode) == IF mode = "replace" THEN q ELSE Merge(p, q)

(* The results that an edit of p may hand to the validator, by tool.       *)
PutResults(p)     == {Put(p, r, d) : r \in Rid, d \in Definition}
MappingResults(p) ==
    {Bind(p, r, c) : r \in Present(p) \cap Mappable, c \in Conn \cup {Unbound}}
ImportResults(p)  == {Import(p, q, m) : q \in Incoming, m \in {"replace", "merge"}}

(* Mutant: a referenced definition is deleted all the same.                *)
RemoveUnchecked(p) == {Remove(p, r) : r \in Rid}

RemoveResults(p) == {Remove(p, r) : r \in {s \in Rid : Referrers(p, s) = {}}}
=============================================================================
