----------------------------- MODULE RegistryRules -----------------------------
(***************************************************************************)
(* The rules a registry must satisfy, in the detail that RegistryPayload   *)
(* leaves out: five kinds of definitions, the fields by which they refer   *)
(* to each other, the checkers of the validator with their search for      *)
(* cycles of interfaces, and the scan for referrers. Clients put and       *)
(* delete definitions one at a time; what validates, or is deleted         *)
(* unreferenced, is stored.                                                *)
(*                                                                         *)
(* A definition's key in its map is its RID, as the put tools make it, and *)
(* a RID names a definition of one kind. The search is the recursion of    *)
(* visit() with its call stack as a variable.                              *)
(***************************************************************************)
EXTENDS Naturals, Sequences, FiniteSets, SequencesExt

CONSTANTS Rid, KindOf,   \* the RIDs, and the kind that each one names
          Connections,   \* the ids of the connections that exist
          Conns,         \* the ids that clients bind types to
          Unbound,       \* no connection
          Absent,        \* no definition under a RID
          Menus          \* bound: the definitions clients send, RID by RID

Kinds == {"shared", "iface", "obj", "link", "action"}

ASSUME RulesAssumption ==
    /\ KindOf \in [Rid -> Kinds] /\ Absent \notin Rid
    /\ Connections \subseteq Conns /\ Unbound \notin Conns

VARIABLES menu,      \* the definitions sent in this behaviour
          stored,    \* the registry
          phase,     \* "idle", or "search" while a candidate is validated
          cand,      \* the candidate
          color,     \* RID -> 0 unseen, 1 in progress, 2 done
          path,      \* the frames of visit(): a RID and the parents left
          findings   \* what the checkers have yielded

searching == <<phase, cand, color, path, findings>>
vars == <<menu, stored, searching>>

Unseen  == [r \in Rid |-> 0]
Nothing == [r \in Rid |-> Absent]

(* A definition, whatever its kind. refs are the fields that refer to      *)
(* other definitions; props are its property types, each with the columns  *)
(* or expressions behind it; names are the properties its rules mention.   *)
Blank == [named |-> TRUE, refs |-> {}, category |-> "object", shape |-> {}, type |-> "t",
          props |-> {}, keys |-> {}, names |-> {}, conn |-> Unbound]

Property(name, backing, type, inherits) ==
    [name |-> name, backing |-> backing, type |-> type, inherits |-> inherits]

Init ==
    /\ menu \in Menus
    /\ stored = Nothing
    /\ phase = "idle"
    /\ cand = Nothing
    /\ color = Unseen
    /\ path = <<>>
    /\ findings = {}

-----------------------------------------------------------------------------
(* The checkers, each a set of findings.                                   *)

Of(reg, kind) == {r \in Rid : KindOf[r] = kind /\ reg[r] # Absent}
Defined(reg)  == {r \in Rid : reg[r] # Absent}
Bearers(reg)  == Of(reg, "obj") \cup Of(reg, "link")   \* of properties and mappings

Finding(code, at, about) == [code |-> code, at |-> at, about |-> about]
Code(code, rids) == {Finding(code, r, r) : r \in rids}

(* The field of a reference and the kind it must resolve to.               *)
Expected == [implements |-> "iface", extends |-> "iface", requires |-> "shared",
             source_object |-> "obj", source_interface |-> "iface",
             target_object |-> "obj", target_interface |-> "iface",
             from_object |-> "obj", from_link |-> "link", from_interface |-> "iface"]

Names(d)     == {p.name : p \in d.props}
Inherited(d) == {p.inherits : p \in d.props} \ {Absent}

(* The fields that a definition of each kind has, and what is in them.     *)
Fields == [shared |-> {}, iface |-> {"extends", "requires"}, obj |-> {"implements"},
           link |-> {"source_object", "source_interface", "target_object",
                     "target_interface", "implements"},
           action |-> {"from_object", "from_link", "from_interface"}]

PropertyTypes == [name : STRING, backing : SUBSET {"column", "expression"}, type : STRING,
                  inherits : Rid \cup {Absent}]

DefinitionOf(kind) ==
    [named : BOOLEAN, refs : SUBSET (Fields[kind] \X Rid), category : STRING,
     shape : SUBSET {"object_constraint", "link_requirements"}, type : STRING,
     props : IF kind \in {"obj", "link"} THEN SUBSET PropertyTypes ELSE {{}},
     keys : SUBSET STRING, names : SUBSET STRING, conn : Conns \cup {Unbound}]

ASSUME MenusAssumption ==
    \A r \in Rid : /\ Absent \notin DefinitionOf(KindOf[r])
                   /\ \A m \in Menus : m[r] \subseteq DefinitionOf(KindOf[r])

Unresolved(reg, d) ==
    {ref[2] : ref \in {x \in d.refs : x[2] \notin Of(reg, Expected[x[1]])}}
    \cup (Inherited(d) \ Of(reg, "shared"))

check_refs(reg) ==
    (UNION {{Finding("REF_NOT_FOUND", r, t) : t \in Unresolved(reg, reg[r])} : r \in Defined(reg)})
    \cup Code("REF_NOT_FOUND", {r \in Bearers(reg) : ~(reg[r].keys \subseteq Names(reg[r]))})

check_structural(reg) == Code("RID_FORMAT", {r \in Defined(reg) : ~reg[r].named})

check_property_backing(reg) ==
    Code("PROPERTY_BACKING", {r \in Bearers(reg) :
            \E p \in reg[r].props : Cardinality(p.backing) # 1})
    \cup Code("INHERITED_DATA_TYPE_MISMATCH", {r \in Bearers(reg) :
            \E p \in reg[r].props : /\ p.inherits \in Of(reg, "shared")
                                    /\ p.type # reg[p.inherits].type})

check_cross_property(reg) ==
    Code("CROSS_PROPERTY_UNRESOLVED", {r \in Bearers(reg) :
            ~(reg[r].names \subseteq Names(reg[r]))})

(* An unbound definition is a warning, an unknown connection an error.     *)
check_asset_mapping(reg) ==
    Code("ASSET_MAPPING_EMPTY", {r \in Bearers(reg) : reg[r].conn = Unbound})
    \cup Code("ASSET_MAPPING_CONNECTION_NOT_FOUND", {r \in Bearers(reg) :
            reg[r].conn \notin Connections \cup {Unbound}})

Extends(reg, r) == {ref[2] : ref \in {x \in reg[r].refs : x[1] = "extends"}}
Parents(reg, r) == Extends(reg, r) \cap Of(reg, "iface")

(* Rules 1 and 2: the shape goes with the category, and so do parents.     *)
check_interface_category(reg) ==
    Code("INTERFACE_CATEGORY_MISMATCH", {r \in Of(reg, "iface") :
            \/ reg[r].category = "object" /\ "object_constraint" \in reg[r].shape
            \/ reg[r].category = "link" /\ "link_requirements" \in reg[r].shape})
    \cup Code("INTERFACE_CATEGORY_INVALID", {r \in Of(reg, "iface") :
            reg[r].category \notin {"object", "link"}})
    \cup Code("INTERFACE_EXTENDS_CATEGORY_MISMATCH", {r \in Of(reg, "iface") :
            \E p \in Parents(reg, r) : reg[p].category # reg[r].category})

(* validate(), up to rule 3.                                               *)
Checks(reg) ==
    check_refs(reg) \cup check_structural(reg) \cup check_property_backing(reg)
    \cup check_cross_property(reg) \cup check_asset_mapping(reg)
    \cup check_interface_category(reg)

Errors(found) == {f \in found : f.code # "ASSET_MAPPING_EMPTY"}

(* Mutant: the scan forgets one of the fields.                             *)
ScannedWithoutLinks == DOMAIN Expected \ {"from_link"}

(* find_referrers looks at the same fields as check_refs.                  *)
Scanned == DOMAIN Expected

(* Mutant: what inherits from a shared property is forgotten.              *)
ReferrersByField(reg, t) ==
    {r \in Defined(reg) : \E field \in Scanned : <<field, t>> \in reg[r].refs}

Referrers(reg, t) ==
    {r \in Defined(reg) : \/ \E field \in Scanned : <<field, t>> \in reg[r].refs
                          \/ t \in Inherited(reg[r])}

-----------------------------------------------------------------------------
(* A put: replace the definition, validate, then store or refuse.          *)

Validate(reg) ==
    /\ phase = "idle"
    /\ phase' = "search"
    /\ cand' = reg
    /\ findings' = Checks(reg)
    /\ UNCHANGED <<menu, stored, color, path>>

Put(r, d) == Validate([stored EXCEPT ![r] = d])

(* set_asset_mapping, on an object or a link type that is there.           *)
Bind(r, conn) ==
    /\ r \in Bearers(stored)
    /\ Validate([stored EXCEPT ![r].conn = conn])

(* Rule 3: visit() from every interface that is still unseen. Dictionaries *)
(* and lists come in any order.                                            *)
Enter(r) ==
    /\ phase = "search"
    /\ path = <<>>
    /\ r \in Of(cand, "iface")
    /\ color[r] = 0
    /\ color' = [color EXCEPT ![r] = 1]
    /\ path' = <<[rid |-> r, left |-> Extends(cand, r)]>>
    /\ UNCHANGED <<menu, stored, phase, cand, findings>>

Top == path[Len(path)]
Took(p) == [path EXCEPT ![Len(path)].left = @ \ {p}]

(* The frames from p on are a cycle.                                       *)
CycleAt(p) == {path[i].rid : i \in {j \in 1..Len(path) :
                  \E k \in 1..j : path[k].rid = p}}

(* Mutant: a parent that is done closes a cycle like one in progress.      *)
FollowAnyColor(p) ==
    /\ path # <<>>
    /\ p \in Top.left
    /\ \/ /\ p \in Of(cand, "iface")
          /\ color[p] = 0
          /\ color' = [color EXCEPT ![p] = 1]
          /\ path' = Append(Took(p), [rid |-> p, left |-> Extends(cand, p)])
          /\ UNCHANGED findings
       \/ /\ p \in Of(cand, "iface")
          /\ color[p] # 0
          /\ findings' = findings \cup {Finding("INTERFACE_EXTENDS_CYCLE", p, CycleAt(p))}
          /\ path' = Took(p)
          /\ UNCHANGED color
       \/ /\ p \notin Of(cand, "iface")
          /\ path' = Took(p)
          /\ UNCHANGED <<color, findings>>
    /\ UNCHANGED <<menu, stored, phase, cand>>

(* visit(parent): unseen, it is entered; in progress, it closes a cycle;   *)
(* done, or not an interface of the registry, it is passed over.           *)
Follow(p) ==
    /\ path # <<>>
    /\ p \in Top.left
    /\ \/ /\ p \in Of(cand, "iface")
          /\ color[p] = 0
          /\ color' = [color EXCEPT ![p] = 1]
          /\ path' = Append(Took(p), [rid |-> p, left |-> Extends(cand, p)])
          /\ UNCHANGED findings
       \/ /\ p \in Of(cand, "iface")
          /\ color[p] = 1
          /\ findings' = findings \cup {Finding("INTERFACE_EXTENDS_CYCLE", p, CycleAt(p))}
          /\ path' = Took(p)
          /\ UNCHANGED color
       \/ /\ p \notin Of(cand, "iface") \/ color[p] = 2
          /\ path' = Took(p)
          /\ UNCHANGED <<color, findings>>
    /\ UNCHANGED <<menu, stored, phase, cand>>

(* Mutant: what is left is unseen again.                                   *)
LeaveUnseen ==
    /\ path # <<>>
    /\ Top.left = {}
    /\ color' = [color EXCEPT ![Top.rid] = 0]
    /\ path' = Front(path)
    /\ UNCHANGED <<menu, stored, phase, cand, findings>>

Leave ==
    /\ path # <<>>
    /\ Top.left = {}
    /\ color' = [color EXCEPT ![Top.rid] = 2]
    /\ path' = Front(path)
    /\ UNCHANGED <<menu, stored, phase, cand, findings>>

Searched == phase = "search" /\ path = <<>> /\ \A r \in Of(cand, "iface") : color[r] # 0

(* _validate_or_raise: the candidate is stored, or nothing is.             *)
Decide ==
    /\ Searched
    /\ stored' = IF Errors(findings) = {} THEN cand ELSE stored
    /\ phase' = "idle"
    /\ cand' = Nothing
    /\ color' = Unseen
    /\ findings' = {}
    /\ UNCHANGED <<menu, path>>

(* A delete is refused while something refers to it; it is not validated.  *)
Delete(r) ==
    /\ phase = "idle"
    /\ stored[r] # Absent
    /\ Referrers(stored, r) = {}
    /\ stored' = [stored EXCEPT ![r] = Absent]
    /\ UNCHANGED <<menu, searching>>

Next ==
    \/ \E r \in Rid : \/ \E d \in menu[r] : Put(r, d)
                      \/ \E conn \in Conns : Bind(r, conn)
                      \/ Enter(r) \/ Follow(r) \/ Delete(r)
    \/ Leave \/ Decide

Spec == Init /\ [][Next]_vars

(* validate() is a function: it runs to its end.                           *)
FairSpec == Spec /\ WF_vars((\E r \in Rid : Enter(r) \/ Follow(r)) \/ Leave \/ Decide)

-----------------------------------------------------------------------------
(* Properties.                                                             *)

(* The types, and the colors against the frames: what is in progress is    *)
(* on the path, once.                                                      *)
TypeOK ==
    /\ menu \in Menus
    /\ \A reg \in {stored, cand}, r \in Rid :
          reg[r] = Absent \/ DOMAIN reg[r] = DOMAIN Blank
    /\ phase \in {"idle", "search"}
    /\ color \in [Rid -> 0..2]
    /\ \A i \in 1..Len(path) : path[i].left \subseteq Rid
    /\ {r \in Rid : color[r] = 1} = {path[i].rid : i \in 1..Len(path)}
    /\ \A i, j \in 1..Len(path) : path[i].rid = path[j].rid => i = j

(* No cycle: every set of interfaces has one that extends none of them.    *)
Acyclic(reg) ==
    \A S \in SUBSET Of(reg, "iface") : S # {} => \E r \in S : Extends(reg, r) \cap S = {}

(* What a registry promises to those who read it.                          *)
Sound(reg) ==
    /\ Acyclic(reg)
    /\ \A r \in Defined(reg) :
          /\ reg[r].named
          /\ \A field \in DOMAIN Expected, t \in Rid :
                <<field, t>> \in reg[r].refs => reg[t] # Absent /\ KindOf[t] = Expected[field]
          /\ KindOf[r] \in {"obj", "link"} =>
                /\ reg[r].keys \cup reg[r].names \subseteq Names(reg[r])
                /\ reg[r].conn \in Connections \cup {Unbound}
                /\ \A p \in reg[r].props :
                      /\ p.backing \in {{"column"}, {"expression"}}
                      /\ p.inherits # Absent => /\ KindOf[p.inherits] = "shared"
                                                /\ reg[p.inherits] # Absent
                                                /\ reg[p.inherits].type = p.type
          /\ KindOf[r] = "iface" =>
                /\ \/ reg[r].category = "object" /\ "object_constraint" \notin reg[r].shape
                   \/ reg[r].category = "link" /\ "link_requirements" \notin reg[r].shape
                /\ \A p \in Extends(reg, r) : reg[p].category = reg[r].category

(* Puts are validated and deletes are not; whatever the sequence, what is  *)
(* stored keeps every promise: references, categories, types, no cycle.    *)
StoredIsSound == Sound(stored)

(* The validator refuses what is unsound and nothing else, in whatever     *)
(* order the search meets the interfaces.                                  *)
ValidatorIsExact == Searched => (Errors(findings) = {} <=> Sound(cand))

(* Each cycle that is reported is one: all of it extends within it.        *)
CyclesAreReal ==
    /\ TypeOK
    /\ \A f \in findings : f.code = "INTERFACE_EXTENDS_CYCLE" =>
          /\ f.at \in f.about
          /\ \A r \in f.about : Extends(cand, r) \cap f.about # {}

(* A delete is refused exactly when what is left would be unsound: the     *)
(* scan for referrers and the check of references look at the same fields. *)
DeletesAreExact ==
    \A r \in Defined(stored) :
       Referrers(stored, r) = {} <=> Sound([stored EXCEPT ![r] = Absent])

(* Every put is answered: the search ends, cycles or not.                  *)
PutsAreAnswered == (phase = "search") ~> (phase = "idle")
=============================================================================
