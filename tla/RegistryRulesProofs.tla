-------------------------- MODULE RegistryRulesProofs --------------------------
(***************************************************************************)
(* Theorems about RegistryRules: the validator accepts what is sound and   *)
(* nothing else, whatever the definitions and the order of its search, and *)
(* so what is stored keeps every promise, deletes included.                *)
(*                                                                         *)
(* ChecksExact settles the checkers that look at a definition at a time.   *)
(* What needs an invariant is the search: PathOK ties the colors to the    *)
(* frames, and Ordered says that as long as no cycle was found, what is    *)
(* done has no cycle and leads only to what is done.                       *)
(***************************************************************************)
EXTENDS RegistryRules, FiniteSetTheorems, SequenceTheorems, TLAPS

(* A map of definitions, each of the kind its RID names.                   *)
IsRegistry(reg) ==
    /\ reg = [r \in Rid |-> reg[r]]
    /\ \A r \in Rid : reg[r] = Absent \/ reg[r] \in DefinitionOf(KindOf[r])

(* Sound, but for cycles.                                                  *)
SoundDefinition(reg, r) ==
    /\ reg[r].named
    /\ \A field \in DOMAIN Expected, t \in Rid :
          <<field, t>> \in reg[r].refs => reg[t] # Absent /\ KindOf[t] = Expected[field]
    /\ KindOf[r] \in {"obj", "link"} =>
          /\ reg[r].keys \cup reg[r].names \subseteq Names(reg[r])
          /\ reg[r].conn \in Connections \cup {Unbound}
          /\ \A p \in reg[r].props :
                /\ p.backing \in {{"column"}, {"expression"}}
                /\ p.inherits # Absent => /\ KindOf[p.inherits] = "shared"
                                          /\ reg[p.inherits] # Absent
                                          /\ reg[p.inherits].type = p.type
    /\ KindOf[r] = "iface" =>
          /\ \/ reg[r].category = "object" /\ "object_constraint" \notin reg[r].shape
             \/ reg[r].category = "link" /\ "link_requirements" \notin reg[r].shape
          /\ \A p \in Extends(reg, r) : reg[p].category = reg[r].category

LEMMA SoundParts ==
    ASSUME NEW reg
    PROVE  Sound(reg) <=> Acyclic(reg) /\ \A r \in Defined(reg) : SoundDefinition(reg, r)
BY Zenon DEF Sound, SoundDefinition

-----------------------------------------------------------------------------
(* Definitions, one field at a time.                                       *)

LEMMA DefinitionFields ==
    ASSUME NEW kind \in Kinds, NEW d \in DefinitionOf(kind)
    PROVE  /\ d.named \in BOOLEAN
           /\ d.refs \subseteq Fields[kind] \X Rid
           /\ d.props \subseteq PropertyTypes
           /\ kind \notin {"obj", "link"} => d.props = {}
           /\ d.conn \in Conns \cup {Unbound}
           /\ DOMAIN d = DOMAIN Blank
BY DEF DefinitionOf, Kinds, Blank

LEMMA FieldsExpected ==
    ASSUME NEW kind \in Kinds
    PROVE  /\ Fields[kind] \subseteq DOMAIN Expected
           /\ kind # "iface" => "extends" \notin Fields[kind]
BY DEF Fields, Expected, Kinds

LEMMA ExtendsIface == Expected["extends"] = "iface" /\ "extends" \in DOMAIN Expected
BY DEF Expected

LEMMA FindingFields ==
    ASSUME NEW c, NEW a, NEW b
    PROVE  /\ Finding(c, a, b).code = c
           /\ Finding(c, a, b).at = a
           /\ Finding(c, a, b).about = b
BY DEF Finding

LEMMA RebindIsDefinition ==
    ASSUME NEW kind \in Kinds, NEW d \in DefinitionOf(kind), NEW conn \in Conns
    PROVE  [d EXCEPT !.conn = conn] \in DefinitionOf(kind)
BY DEF DefinitionOf

LEMMA ExtendsIsRef ==
    ASSUME NEW reg, IsRegistry(reg), NEW r \in Defined(reg)
    PROVE  /\ Extends(reg, r) \subseteq Rid
           /\ \A t \in Rid : t \in Extends(reg, r) <=> <<"extends", t>> \in reg[r].refs
<1>1. r \in Rid /\ reg[r] \in DefinitionOf(KindOf[r]) /\ KindOf[r] \in Kinds
  BY RulesAssumption DEF Defined, IsRegistry
<1>2. reg[r].refs \subseteq Fields[KindOf[r]] \X Rid
  BY <1>1, DefinitionFields
<1>. QED
  BY <1>2 DEF Extends

-----------------------------------------------------------------------------
(* The checkers.                                                           *)

LEMMA CodeCode ==
    ASSUME NEW c, NEW rids, NEW f \in Code(c, rids)
    PROVE  f.code = c
<1>1. PICK r \in rids : f = Finding(c, r, r)
  BY DEF Code
<1>. QED
  BY <1>1, FindingFields

LEMMA CodeEmpty ==
    ASSUME NEW c, NEW rids
    PROVE  /\ Code(c, rids) = {} <=> rids = {}
           /\ c # "ASSET_MAPPING_EMPTY" => Errors(Code(c, rids)) = Code(c, rids)
           /\ c = "ASSET_MAPPING_EMPTY" => Errors(Code(c, rids)) = {}
<1>1. Code(c, rids) = {} <=> rids = {}
  BY DEF Code
<1>2. Errors(Code(c, rids)) = {f \in Code(c, rids) : c # "ASSET_MAPPING_EMPTY"}
  BY CodeCode DEF Errors
<1>. QED
  BY <1>1, <1>2

LEMMA ErrorsUnion ==
    ASSUME NEW a, NEW b
    PROVE  Errors(a \cup b) = Errors(a) \cup Errors(b)
BY DEF Errors

LEMMA RefFindings ==
    ASSUME NEW reg
    PROVE  /\ Errors(check_refs(reg)) = check_refs(reg)
           /\ check_refs(reg) = {} <=>
                 /\ \A r \in Defined(reg) : Unresolved(reg, reg[r]) = {}
                 /\ \A r \in Bearers(reg) : reg[r].keys \subseteq Names(reg[r])
<1> DEFINE U(r) == {Finding("REF_NOT_FOUND", r, t) : t \in Unresolved(reg, reg[r])}
           A == UNION {U(r) : r \in Defined(reg)}
           B == {r \in Bearers(reg) : ~(reg[r].keys \subseteq Names(reg[r]))}
<1>1. check_refs(reg) = A \cup Code("REF_NOT_FOUND", B)
  BY Zenon DEF check_refs
<1>2. Code("REF_NOT_FOUND", B) = {} <=> B = {}
  BY CodeEmpty
<1>3. Errors(Code("REF_NOT_FOUND", B)) = Code("REF_NOT_FOUND", B)
  BY CodeEmpty
<1>4. \A f \in A : f.code = "REF_NOT_FOUND"
  BY FindingFields
<1>5. Errors(A) = A
  BY <1>4 DEF Errors
<1>6. A = {} <=> \A r \in Defined(reg) : Unresolved(reg, reg[r]) = {}
  <2>1. ASSUME NEW r
        PROVE  U(r) = {} <=> Unresolved(reg, reg[r]) = {}
    OBVIOUS
  <2> HIDE DEF U
  <2>2. A = {} <=> \A r \in Defined(reg) : U(r) = {}
    OBVIOUS
  <2>. QED
    BY <2>1, <2>2, Zenon
<1>7. B = {} <=> \A r \in Bearers(reg) : reg[r].keys \subseteq Names(reg[r])
  OBVIOUS
<1> HIDE DEF A, B
<1>8. Errors(check_refs(reg)) = Errors(A) \cup Errors(Code("REF_NOT_FOUND", B))
  BY <1>1, ErrorsUnion
<1>. QED
  BY <1>1, <1>2, <1>3, <1>5, <1>6, <1>7, <1>8

(* The findings of the other checkers, empty or not.                       *)
NoFinding(reg) ==
    /\ \A r \in Defined(reg) : Unresolved(reg, reg[r]) = {} /\ reg[r].named
    /\ \A r \in Bearers(reg) :
          /\ reg[r].keys \subseteq Names(reg[r])
          /\ reg[r].names \subseteq Names(reg[r])
          /\ reg[r].conn \in Connections \cup {Unbound}
          /\ \A p \in reg[r].props :
                /\ Cardinality(p.backing) = 1
                /\ ~(p.inherits \in Of(reg, "shared") /\ p.type # reg[p.inherits].type)
    /\ \A r \in Of(reg, "iface") :
          /\ ~(reg[r].category = "object" /\ "object_constraint" \in reg[r].shape)
          /\ ~(reg[r].category = "link" /\ "link_requirements" \in reg[r].shape)
          /\ reg[r].category \in {"object", "link"}
          /\ \A p \in Parents(reg, r) : reg[p].category = reg[r].category

LEMMA ErrorsExact ==
    ASSUME NEW reg
    PROVE  Errors(Checks(reg)) = {} <=> NoFinding(reg)
<1> DEFINE S1 == {r \in Defined(reg) : ~reg[r].named}
           P1 == {r \in Bearers(reg) : \E p \in reg[r].props : Cardinality(p.backing) # 1}
           P2 == {r \in Bearers(reg) : \E p \in reg[r].props :
                    /\ p.inherits \in Of(reg, "shared")
                    /\ p.type # reg[p.inherits].type}
           X1 == {r \in Bearers(reg) : ~(reg[r].names \subseteq Names(reg[r]))}
           A1 == {r \in Bearers(reg) : reg[r].conn = Unbound}
           A2 == {r \in Bearers(reg) : reg[r].conn \notin Connections \cup {Unbound}}
           I1 == {r \in Of(reg, "iface") :
                    \/ reg[r].category = "object" /\ "object_constraint" \in reg[r].shape
                    \/ reg[r].category = "link" /\ "link_requirements" \in reg[r].shape}
           I2 == {r \in Of(reg, "iface") : reg[r].category \notin {"object", "link"}}
           I3 == {r \in Of(reg, "iface") :
                    \E p \in Parents(reg, r) : reg[p].category # reg[r].category}
<1>1. Checks(reg) =
         check_refs(reg) \cup Code("RID_FORMAT", S1)
         \cup (Code("PROPERTY_BACKING", P1) \cup Code("INHERITED_DATA_TYPE_MISMATCH", P2))
         \cup Code("CROSS_PROPERTY_UNRESOLVED", X1)
         \cup (Code("ASSET_MAPPING_EMPTY", A1)
               \cup Code("ASSET_MAPPING_CONNECTION_NOT_FOUND", A2))
         \cup (Code("INTERFACE_CATEGORY_MISMATCH", I1)
               \cup Code("INTERFACE_CATEGORY_INVALID", I2)
               \cup Code("INTERFACE_EXTENDS_CATEGORY_MISMATCH", I3))
  BY Zenon DEF Checks, check_structural, check_property_backing, check_cross_property,
               check_asset_mapping, check_interface_category
<1>2. NoFinding(reg) <=>
         /\ \A r \in Defined(reg) : Unresolved(reg, reg[r]) = {}
         /\ \A r \in Bearers(reg) : reg[r].keys \subseteq Names(reg[r])
         /\ S1 = {} /\ P1 = {} /\ P2 = {} /\ X1 = {} /\ A2 = {} /\ I1 = {} /\ I2 = {} /\ I3 = {}
  BY Zenon DEF NoFinding
<1> HIDE DEF S1, P1, P2, X1, A1, A2, I1, I2, I3
<1>3. /\ Errors(Code("RID_FORMAT", S1)) = {} <=> S1 = {}
      /\ Errors(Code("PROPERTY_BACKING", P1)) = {} <=> P1 = {}
      /\ Errors(Code("INHERITED_DATA_TYPE_MISMATCH", P2)) = {} <=> P2 = {}
      /\ Errors(Code("CROSS_PROPERTY_UNRESOLVED", X1)) = {} <=> X1 = {}
      /\ Errors(Code("ASSET_MAPPING_EMPTY", A1)) = {}
      /\ Errors(Code("ASSET_MAPPING_CONNECTION_NOT_FOUND", A2)) = {} <=> A2 = {}
      /\ Errors(Code("INTERFACE_CATEGORY_MISMATCH", I1)) = {} <=> I1 = {}
      /\ Errors(Code("INTERFACE_CATEGORY_INVALID", I2)) = {} <=> I2 = {}
      /\ Errors(Code("INTERFACE_EXTENDS_CATEGORY_MISMATCH", I3)) = {} <=> I3 = {}
  BY CodeEmpty
<1> DEFINE K1 == Code("PROPERTY_BACKING", P1)
                \cup Code("INHERITED_DATA_TYPE_MISMATCH", P2)
           K2 == Code("ASSET_MAPPING_EMPTY", A1)
                \cup Code("ASSET_MAPPING_CONNECTION_NOT_FOUND", A2)
           K3 == Code("INTERFACE_CATEGORY_MISMATCH", I1)
                \cup Code("INTERFACE_CATEGORY_INVALID", I2)
                \cup Code("INTERFACE_EXTENDS_CATEGORY_MISMATCH", I3)
<1>4. /\ Errors(K1) = {} <=> P1 = {} /\ P2 = {}
      /\ Errors(K2) = {} <=> A2 = {}
      /\ Errors(K3) = {} <=> I1 = {} /\ I2 = {} /\ I3 = {}
  <2>1. Errors(K1) = Errors(Code("PROPERTY_BACKING", P1))
                     \cup Errors(Code("INHERITED_DATA_TYPE_MISMATCH", P2))
    BY ErrorsUnion
  <2>2. Errors(K2) = Errors(Code("ASSET_MAPPING_EMPTY", A1))
                     \cup Errors(Code("ASSET_MAPPING_CONNECTION_NOT_FOUND", A2))
    BY ErrorsUnion
  <2>3. Errors(K3) = Errors(Code("INTERFACE_CATEGORY_MISMATCH", I1)
                            \cup Code("INTERFACE_CATEGORY_INVALID", I2))
                     \cup Errors(Code("INTERFACE_EXTENDS_CATEGORY_MISMATCH", I3))
    BY ErrorsUnion
  <2>4. Errors(Code("INTERFACE_CATEGORY_MISMATCH", I1)
                            \cup Code("INTERFACE_CATEGORY_INVALID", I2))
        = Errors(Code("INTERFACE_CATEGORY_MISMATCH", I1))
          \cup Errors(Code("INTERFACE_CATEGORY_INVALID", I2))
    BY ErrorsUnion
  <2>. QED
    BY <2>1, <2>2, <2>3, <2>4, <1>3
<1> HIDE DEF K1, K2, K3
<1>5. Checks(reg) = ((((check_refs(reg) \cup Code("RID_FORMAT", S1)) \cup K1)
                     \cup Code("CROSS_PROPERTY_UNRESOLVED", X1)) \cup K2) \cup K3
  BY <1>1 DEF K1, K2, K3
<1> DEFINE L1 == check_refs(reg) \cup Code("RID_FORMAT", S1)
           L2 == L1 \cup K1
           L3 == L2 \cup Code("CROSS_PROPERTY_UNRESOLVED", X1)
<1>6. /\ Errors(L1) = Errors(check_refs(reg)) \cup Errors(Code("RID_FORMAT", S1))
      /\ Errors(L2) = Errors(L1) \cup Errors(K1)
      /\ Errors(L3) = Errors(L2) \cup Errors(Code("CROSS_PROPERTY_UNRESOLVED", X1))
      /\ Errors(L3 \cup K2) = Errors(L3) \cup Errors(K2)
      /\ Errors(Checks(reg)) = Errors(L3 \cup K2) \cup Errors(K3)
  <2>1. Checks(reg) = (L3 \cup K2) \cup K3
    BY <1>5 DEF L1, L2, L3
  <2> HIDE DEF L1, L2, L3
  <2>2. Errors((L3 \cup K2) \cup K3) = Errors(L3 \cup K2) \cup Errors(K3)
    BY ErrorsUnion
  <2>. QED
    BY <2>1, <2>2, ErrorsUnion, Zenon DEF L1, L2, L3
<1> HIDE DEF L1, L2, L3
<1>7. Errors(Checks(reg)) = {} <=>
         /\ Errors(check_refs(reg)) = {} /\ Errors(Code("RID_FORMAT", S1)) = {}
         /\ Errors(K1) = {} /\ Errors(Code("CROSS_PROPERTY_UNRESOLVED", X1)) = {}
         /\ Errors(K2) = {} /\ Errors(K3) = {}
  BY <1>6
<1>. QED
  BY <1>2, <1>3, <1>4, <1>7, RefFindings

(* A finding of a checker is not a cycle.                                  *)
LEMMA CheckCodes ==
    ASSUME NEW reg, NEW f \in Checks(reg)
    PROVE  f.code # "INTERFACE_EXTENDS_CYCLE"
<1>1. CASE f \in check_refs(reg)
  <2>1. CASE f \in Code("REF_NOT_FOUND", {r \in Bearers(reg) :
                                            ~(reg[r].keys \subseteq Names(reg[r]))})
    BY <2>1, CodeCode
  <2>2. CASE \E r \in Defined(reg) : \E t \in Unresolved(reg, reg[r]) :
                f = Finding("REF_NOT_FOUND", r, t)
    BY <2>2, FindingFields
  <2>. QED
    BY <1>1, <2>1, <2>2, Zenon DEF check_refs
<1>2. CASE f \in check_structural(reg)
  BY <1>2, CodeCode DEF check_structural
<1>3. CASE f \in check_property_backing(reg)
  BY <1>3, CodeCode DEF check_property_backing
<1>4. CASE f \in check_cross_property(reg)
  BY <1>4, CodeCode DEF check_cross_property
<1>5. CASE f \in check_asset_mapping(reg)
  BY <1>5, CodeCode DEF check_asset_mapping
<1>6. CASE f \in check_interface_category(reg)
  BY <1>6, CodeCode DEF check_interface_category
<1>. QED
  BY <1>1, <1>2, <1>3, <1>4, <1>5, <1>6 DEF Checks

(* Exactly one of the two columns and expressions.                         *)
LEMMA OneBacking ==
    ASSUME NEW b \in SUBSET {"column", "expression"}
    PROVE  Cardinality(b) = 1 <=> b \in {{"column"}, {"expression"}}
<1>1. b \in {{}, {"column"}, {"expression"}, {"column", "expression"}}
  OBVIOUS
<1>5. {} \notin {{"column"}, {"expression"}}
      /\ {"column", "expression"} \notin {{"column"}, {"expression"}}
  <2>1. "column" # "expression"
    OBVIOUS
  <2>. QED
    BY <2>1
<1>2. Cardinality({"column"}) = 1 /\ Cardinality({"expression"}) = 1
  BY FS_Singleton
<1>3. Cardinality({}) = 0
  BY FS_EmptySet
<1>4. Cardinality({"column", "expression"}) = 2
  <2>1. IsFiniteSet({"column"}) /\ "expression" \notin {"column"}
    BY FS_Singleton
  <2>2. {"column", "expression"} = {"column"} \cup {"expression"}
    OBVIOUS
  <2>. QED
    BY <1>2, <2>1, <2>2, FS_AddElement
<1>7. b = {} \/ b = {"column"} \/ b = {"expression"} \/ b = {"column", "expression"}
  BY <1>1
<1>8. CASE b = {}
  BY <1>3, <1>5, <1>8
<1>9. CASE b = {"column"}
  BY <1>2, <1>9
<1>10. CASE b = {"expression"}
  BY <1>2, <1>10
<1>11. CASE b = {"column", "expression"}
  BY <1>4, <1>5, <1>11
<1>. QED
  BY <1>7, <1>8, <1>9, <1>10, <1>11

(* The references of a definition resolve: once as the checker says it,    *)
(* once as a promise to readers.                                           *)
LEMMA ResolvedExact ==
    ASSUME NEW reg, IsRegistry(reg), NEW r \in Defined(reg)
    PROVE  Unresolved(reg, reg[r]) = {} <=>
              /\ \A field \in DOMAIN Expected, t \in Rid :
                    <<field, t>> \in reg[r].refs => reg[t] # Absent /\ KindOf[t] = Expected[field]
              /\ \A p \in reg[r].props : p.inherits # Absent => p.inherits \in Of(reg, "shared")
<1> DEFINE d == reg[r]
           F == {ref[2] : ref \in {x \in d.refs : x[2] \notin Of(reg, Expected[x[1]])}}
<1>1. r \in Rid /\ d \in DefinitionOf(KindOf[r]) /\ KindOf[r] \in Kinds
  BY RulesAssumption DEF Defined, IsRegistry
<1>2. d.refs \subseteq (DOMAIN Expected) \X Rid
  BY <1>1, DefinitionFields, FieldsExpected
<1>3. Unresolved(reg, d) = {} <=> F = {} /\ Inherited(d) \subseteq Of(reg, "shared")
  BY DEF Unresolved
<1>4. F = {} <=> \A x \in d.refs : x[2] \in Of(reg, Expected[x[1]])
  OBVIOUS
<1>5. (\A x \in d.refs : x[2] \in Of(reg, Expected[x[1]])) <=>
      \A field \in DOMAIN Expected, t \in Rid :
         <<field, t>> \in d.refs => t \in Of(reg, Expected[field])
  <2> DEFINE D == d.refs
  <2> HIDE DEF D
  <2>1. (\A x \in D : x[2] \in Of(reg, Expected[x[1]])) <=>
        \A field \in DOMAIN Expected, t \in Rid :
           <<field, t>> \in D => t \in Of(reg, Expected[field])
    BY <1>2 DEF D
  <2>. QED
    BY <2>1 DEF D
<1>6. Inherited(d) \subseteq Of(reg, "shared") <=>
      \A p \in d.props : p.inherits # Absent => p.inherits \in Of(reg, "shared")
  BY DEF Inherited
<1>7. \A k : \A t \in Rid : t \in Of(reg, k) <=> reg[t] # Absent /\ KindOf[t] = k
  BY DEF Of
<1>. QED
  BY <1>3, <1>4, <1>5, <1>6, <1>7

(* The checkers report nothing exactly when each definition keeps its      *)
(* promises.                                                               *)
LEMMA ChecksExact ==
    ASSUME NEW reg, IsRegistry(reg)
    PROVE  Errors(Checks(reg)) = {} <=> \A r \in Defined(reg) : SoundDefinition(reg, r)
<1> DEFINE Refs(r) == /\ \A field \in DOMAIN Expected, t \in Rid :
                            <<field, t>> \in reg[r].refs =>
                               reg[t] # Absent /\ KindOf[t] = Expected[field]
                      /\ \A p \in reg[r].props :
                            p.inherits # Absent => p.inherits \in Of(reg, "shared")
           Found(r) ==
              /\ Unresolved(reg, reg[r]) = {} /\ reg[r].named
              /\ KindOf[r] \in {"obj", "link"} =>
                    /\ reg[r].keys \subseteq Names(reg[r])
                    /\ reg[r].names \subseteq Names(reg[r])
                    /\ reg[r].conn \in Connections \cup {Unbound}
                    /\ \A p \in reg[r].props :
                          /\ Cardinality(p.backing) = 1
                          /\ ~(p.inherits \in Of(reg, "shared") /\ p.type # reg[p.inherits].type)
              /\ KindOf[r] = "iface" =>
                    /\ ~(reg[r].category = "object" /\ "object_constraint" \in reg[r].shape)
                    /\ ~(reg[r].category = "link" /\ "link_requirements" \in reg[r].shape)
                    /\ reg[r].category \in {"object", "link"}
                    /\ \A p \in Parents(reg, r) : reg[p].category = reg[r].category
<1>1. NoFinding(reg) <=> \A r \in Defined(reg) : Found(r)
  <2>1. \A r : /\ r \in Bearers(reg) <=> r \in Defined(reg) /\ KindOf[r] \in {"obj", "link"}
               /\ r \in Of(reg, "iface") <=> r \in Defined(reg) /\ KindOf[r] = "iface"
    BY DEF Bearers, Of, Defined
  <2>. QED
    BY <2>1, Zenon DEF NoFinding
<1>2. ASSUME NEW r \in Defined(reg)
      PROVE  Found(r) <=> SoundDefinition(reg, r)
  <2>1. r \in Rid /\ reg[r] \in DefinitionOf(KindOf[r]) /\ KindOf[r] \in Kinds
    BY RulesAssumption DEF Defined, IsRegistry
  <2>2. Unresolved(reg, reg[r]) = {} <=> Refs(r)
    BY <1>2, ResolvedExact
  <2>3. ASSUME NEW p \in reg[r].props
        PROVE  /\ Cardinality(p.backing) = 1 <=> p.backing \in {{"column"}, {"expression"}}
               /\ p.inherits \in Rid \cup {Absent}
    <3>1. p \in PropertyTypes
      BY <2>1, DefinitionFields
    <3>2. p.backing \in SUBSET {"column", "expression"} /\ p.inherits \in Rid \cup {Absent}
      BY <3>1 DEF PropertyTypes
    <3>. QED
      BY <3>2, OneBacking
  <2>4. KindOf[r] \notin {"obj", "link"} => reg[r].props = {}
    BY <2>1, DefinitionFields
  <2>5. \A t : t \in Of(reg, "shared") <=> t \in Rid /\ reg[t] # Absent /\ KindOf[t] = "shared"
    BY DEF Of
  <2>6. Refs(r) => Extends(reg, r) \subseteq Of(reg, "iface")
    BY <1>2, ExtendsIsRef, ExtendsIface DEF Of
  <2>7. Refs(r) => Parents(reg, r) = Extends(reg, r)
    BY <2>6 DEF Parents
  <2>8. SoundDefinition(reg, r) => Refs(r)
    BY <2>3, <2>4, <2>5 DEF SoundDefinition
  <2> DEFINE Shape(P) ==
         KindOf[r] = "iface" =>
            /\ ~(reg[r].category = "object" /\ "object_constraint" \in reg[r].shape)
            /\ ~(reg[r].category = "link" /\ "link_requirements" \in reg[r].shape)
            /\ reg[r].category \in {"object", "link"}
            /\ \A p \in P : reg[p].category = reg[r].category
      Form == KindOf[r] = "iface" =>
          /\ \/ reg[r].category = "object" /\ "object_constraint" \notin reg[r].shape
             \/ reg[r].category = "link" /\ "link_requirements" \notin reg[r].shape
          /\ \A p \in Extends(reg, r) : reg[p].category = reg[r].category
      Cells == KindOf[r] \in {"obj", "link"} =>
                  \A p \in reg[r].props :
                     /\ Cardinality(p.backing) = 1
                     /\ ~(p.inherits \in Of(reg, "shared") /\ p.type # reg[p.inherits].type)
      Props == KindOf[r] \in {"obj", "link"} =>
                  \A p \in reg[r].props :
                     /\ p.backing \in {{"column"}, {"expression"}}
                     /\ p.inherits # Absent => /\ KindOf[p.inherits] = "shared"
                                               /\ reg[p.inherits] # Absent
                                               /\ reg[p.inherits].type = p.type
      Maps == KindOf[r] \in {"obj", "link"} =>
                 /\ reg[r].keys \subseteq Names(reg[r])
                 /\ reg[r].names \subseteq Names(reg[r])
                 /\ reg[r].conn \in Connections \cup {Unbound}
  <2>9. Shape(Extends(reg, r)) <=> Form
    BY Zenon
  <2>10. Refs(r) => (Cells <=> Props)
    <3>1. ASSUME Refs(r), NEW p \in reg[r].props
          PROVE  (~(p.inherits \in Of(reg, "shared") /\ p.type # reg[p.inherits].type)) <=>
                 (p.inherits # Absent => /\ KindOf[p.inherits] = "shared"
                                         /\ reg[p.inherits] # Absent
                                         /\ reg[p.inherits].type = p.type)
      <4>1. CASE p.inherits = Absent
        BY <2>5, <4>1, RulesAssumption
      <4>2. CASE p.inherits # Absent
        <5>1. p.inherits \in Of(reg, "shared")
          BY <3>1, <4>2
        <5>. QED
          BY <2>5, <4>2, <5>1
      <4>. QED
        BY <4>1, <4>2
    <3>. QED
      BY <2>3, <3>1, Zenon
  <2>11. Found(r) <=> Unresolved(reg, reg[r]) = {} /\ reg[r].named /\ Cells /\ Maps
                      /\ Shape(Parents(reg, r))
    BY Zenon
  <2>12. SoundDefinition(reg, r) <=> Refs(r) /\ reg[r].named /\ Props /\ Maps /\ Form
    <3>1. ( /\ reg[r].named
            /\ \A field \in DOMAIN Expected, t \in Rid :
                  <<field, t>> \in reg[r].refs => reg[t] # Absent /\ KindOf[t] = Expected[field]
            /\ Props /\ Maps /\ Form ) => SoundDefinition(reg, r)
      BY DEF SoundDefinition
    <3>2. SoundDefinition(reg, r) => Props /\ Maps /\ Form /\ reg[r].named
      BY DEF SoundDefinition
    <3>. QED
      BY <2>8, <3>1, <3>2
  <2> HIDE DEF Refs, Cells, Props, Maps, Form, Shape, Found
  <2>13. CASE Refs(r)
    BY <2>2, <2>7, <2>9, <2>10, <2>11, <2>12, <2>13
  <2>14. CASE ~Refs(r)
    BY <2>2, <2>8, <2>11, <2>14
  <2>. QED
    BY <2>13, <2>14
<1>. QED
  BY <1>1, <1>2, ErrorsExact

-----------------------------------------------------------------------------
(* The search. Frames are of interfaces of the candidate, those in         *)
(* progress, and each is a parent of the one below it.                     *)
Frame == [rid : Rid, left : SUBSET Rid]
Ifaces == Of(cand, "iface")

PathOK ==
    /\ path \in Seq(Frame)
    /\ color \in [Rid -> 0..2]
    /\ \A r \in Rid : color[r] # 0 => r \in Ifaces
    /\ \A r \in Rid : color[r] = 1 => \E i \in 1..Len(path) : path[i].rid = r
    /\ \A i \in 1..Len(path) : /\ color[path[i].rid] = 1
                               /\ path[i].left \subseteq Extends(cand, path[i].rid)
    /\ \A i, j \in 1..Len(path) : path[i].rid = path[j].rid => i = j
    /\ \A i \in 1..Len(path) - 1 : path[i + 1].rid \in Extends(cand, path[i].rid)

IdleOK == phase = "idle" => path = <<>> /\ color = Unseen /\ findings = {} /\ cand = Nothing

(* What is found is what the checkers found, and cycles that are there.    *)
RealCycle(f) ==
    /\ f.code = "INTERFACE_EXTENDS_CYCLE"
    /\ f.at \in f.about
    /\ f.about \subseteq Ifaces
    /\ \A r \in f.about : Extends(cand, r) \cap f.about # {}

FoundOK ==
    /\ phase = "search" => Checks(cand) \subseteq findings
    /\ \A f \in findings : f \in Checks(cand) \/ RealCycle(f)

(* Until a cycle is found: what is done leads to what is done, and some of *)
(* any of it extends none of the rest; and the parents that a frame has    *)
(* taken are done, but for the one that is on top of it.                   *)
NoCycleFound == \A f \in findings : f.code # "INTERFACE_EXTENDS_CYCLE"
Done == {r \in Rid : color[r] = 2}
Seen(i) == Parents(cand, path[i].rid) \ path[i].left

Ordered ==
    NoCycleFound =>
       /\ \A r \in Done : Parents(cand, r) \subseteq Done
       /\ \A S \in SUBSET Done : S # {} => \E r \in S : Extends(cand, r) \cap S = {}
       /\ \A i \in 1..Len(path), p \in Rid :
             p \in Seen(i) => p \in Done \/ (i < Len(path) /\ p = path[i + 1].rid)

SearchInv ==
    /\ IsRegistry(cand)
    /\ phase \in {"idle", "search"}
    /\ PathOK /\ IdleOK /\ FoundOK /\ Ordered

StoredOK == menu \in Menus /\ IsRegistry(stored) /\ Sound(stored)

RulesInv == SearchInv /\ StoredOK

-----------------------------------------------------------------------------
(* The frames after each kind of step.                                     *)

LEMMA TookFacts ==
    ASSUME path \in Seq(Frame), path # <<>>, NEW p
    PROVE  /\ Took(p) \in Seq(Frame)
           /\ Len(Took(p)) = Len(path)
           /\ \A i \in 1..Len(path) :
                 /\ Took(p)[i].rid = path[i].rid
                 /\ Took(p)[i].left = IF i = Len(path) THEN path[i].left \ {p} ELSE path[i].left
<1> DEFINE n == Len(path)
           f == [path[n] EXCEPT !.left = @ \ {p}]
<1>1. n \in Nat \ {0} /\ path[n] \in Frame /\ DOMAIN path = 1..n
  OBVIOUS
<1>2. f \in Frame /\ f.rid = path[n].rid /\ f.left = path[n].left \ {p}
  BY <1>1 DEF Frame
<1>3. Took(p) = [path EXCEPT ![n] = f]
  BY DEF Took
<1> HIDE DEF f
<1>4. Took(p) \in Seq(Frame) /\ Len(Took(p)) = n
  BY <1>1, <1>2, <1>3
<1>5. \A i \in 1..n : Took(p)[i] = IF i = n THEN f ELSE path[i]
  BY <1>1, <1>3
<1>. QED
  BY <1>2, <1>4, <1>5

LEMMA PushFacts ==
    ASSUME NEW q \in Seq(Frame), NEW f \in Frame
    PROVE  /\ Append(q, f) \in Seq(Frame)
           /\ Len(Append(q, f)) = Len(q) + 1
           /\ \A i \in 1..Len(q) : Append(q, f)[i] = q[i]
           /\ Append(q, f)[Len(q) + 1] = f
OBVIOUS

LEMMA FrontFacts ==
    ASSUME path \in Seq(Frame), path # <<>>
    PROVE  /\ Front(path) \in Seq(Frame)
           /\ Len(Front(path)) = Len(path) - 1
           /\ \A i \in 1..Len(path) - 1 : Front(path)[i] = path[i]
<1> DEFINE n == Len(path)
<1>1. n \in Nat /\ n >= 1 /\ \A i \in 1..n - 1 : path[i] \in Frame
  OBVIOUS
<1> HIDE DEF n
<1>2. 1 \in Int /\ n - 1 \in Int
  BY <1>1
<1>3. /\ SubSeq(path, 1, n - 1) \in Seq(Frame)
      /\ Len(SubSeq(path, 1, n - 1)) = IF 1 <= n - 1 THEN (n - 1) - 1 + 1 ELSE 0
      /\ \A i \in 1..(n - 1) - 1 + 1 : SubSeq(path, 1, n - 1)[i] = path[1 + i - 1]
  BY <1>1, <1>2, SubSeqProperties
<1>4. Front(path) = SubSeq(path, 1, n - 1)
  BY Zenon DEF Front, n
<1>5. Len(Front(path)) = n - 1
  BY <1>1, <1>3, <1>4
<1>6. \A i \in 1..n - 1 : Front(path)[i] = path[i]
  BY <1>1, <1>3, <1>4
<1>. QED
  BY <1>3, <1>4, <1>5, <1>6 DEF n

LEMMA PathFacts ==
    ASSUME path \in Seq(Frame)
    PROVE  /\ Len(path) \in Nat
           /\ path # <<>> => Len(path) \in 1..Len(path)
           /\ path = <<>> => Len(path) = 0
           /\ \A i \in 1..Len(path) : path[i].rid \in Rid /\ path[i].left \subseteq Rid
<1>1. \A i \in 1..Len(path) : path[i] \in Frame
  OBVIOUS
<1>2. \A f \in Frame : f.rid \in Rid /\ f.left \subseteq Rid
  BY DEF Frame
<1>. QED
  BY <1>1, <1>2

LEMMA NewFrame ==
    ASSUME IsRegistry(cand), NEW r \in Ifaces
    PROVE  [rid |-> r, left |-> Extends(cand, r)] \in Frame
<1>1. r \in Rid /\ Extends(cand, r) \subseteq Rid
  BY ExtendsIsRef DEF Ifaces, Of, Defined
<1>. QED
  BY <1>1 DEF Frame

LEMMA IfacesStay ==
    ASSUME cand' = cand
    PROVE  /\ Ifaces' = Ifaces
           /\ IsRegistry(cand)' <=> IsRegistry(cand)
           /\ \A f : RealCycle(f)' <=> RealCycle(f)
           /\ \A r : Parents(cand, r)' = Parents(cand, r)
BY DEF Ifaces, IsRegistry, RealCycle, Parents

-----------------------------------------------------------------------------
(* An interface is entered, from the loop of the checker or from a child.  *)

LEMMA EnterStep ==
    ASSUME SearchInv, NEW r \in Rid, Enter(r)
    PROVE  SearchInv'
<1> DEFINE f == [rid |-> r, left |-> Extends(cand, r)]
<1>1. /\ phase = "search" /\ phase' = phase /\ path = <<>> /\ r \in Ifaces /\ color[r] = 0
      /\ color' = [color EXCEPT ![r] = 1] /\ path' = <<f>>
      /\ cand' = cand /\ findings' = findings
  BY DEF Enter, Ifaces
<1>2. IsRegistry(cand) /\ PathOK /\ FoundOK /\ Ordered
  BY DEF SearchInv
<1>3. f \in Frame /\ f.rid = r /\ f.left = Extends(cand, r)
  BY <1>1, <1>2, NewFrame
<1> HIDE DEF f
<1>4. path' \in Seq(Frame) /\ Len(path') = 1 /\ path'[1] = f /\ 1..Len(path') = {1}
  BY <1>1, <1>3
<1>5. Ifaces' = Ifaces
  BY <1>1, IfacesStay
<1>6. color \in [Rid -> 0..2] /\ \A q \in Rid : color[q] # 1
  BY <1>1, <1>2 DEF PathOK
<1>7. /\ color' \in [Rid -> 0..2] /\ color'[r] = 1
      /\ \A q \in Rid : q # r => color'[q] = color[q]
  BY <1>1, <1>6
<1>8. PathOK'
  <2>1. \A q \in Rid : color'[q] # 0 => q \in Ifaces'
    BY <1>1, <1>2, <1>5, <1>7 DEF PathOK
  <2>2. \A q \in Rid : color'[q] = 1 => \E i \in 1..Len(path') : path'[i].rid = q
    BY <1>3, <1>4, <1>6, <1>7
  <2>3. \A i \in 1..Len(path') : /\ color'[path'[i].rid] = 1
                                 /\ path'[i].left \subseteq Extends(cand, path'[i].rid)
    BY <1>3, <1>4, <1>7
  <2>4. \A i, j \in 1..Len(path') : i = j
    BY <1>4
  <2>5. \A i \in 1..Len(path') - 1 : FALSE
    BY <1>4
  <2>. QED
    BY <1>1, <1>4, <1>7, <2>1, <2>2, <2>3, <2>4, <2>5 DEF PathOK
<1>9. Done' = Done
  BY <1>1, <1>6, <1>7 DEF Done
<1>10. Ordered'
  <2>1. \A i \in 1..Len(path') : Seen(i)' = {}
    BY <1>1, <1>3, <1>4 DEF Seen, Parents
  <2>. QED
    BY <1>1, <1>2, <1>9, <2>1, IfacesStay DEF Ordered, NoCycleFound
<1>11. FoundOK'
  BY <1>1, <1>2, IfacesStay DEF FoundOK
<1>. QED
  BY <1>1, <1>2, <1>8, <1>10, <1>11, IfacesStay DEF SearchInv, IdleOK

-----------------------------------------------------------------------------
(* A parent is taken from the frame on top.                                *)

LEMMA TakenFacts ==
    ASSUME SearchInv, NEW p \in Rid, path # <<>>, p \in Top.left
    PROVE  /\ phase = "search"
           /\ p \in Extends(cand, Top.rid) /\ Top.rid \in Ifaces
           /\ p \in Ifaces => p \in Parents(cand, Top.rid)
<1>1. PathOK /\ IdleOK /\ phase \in {"idle", "search"}
  BY DEF SearchInv
<1>2. Len(path) \in 1..Len(path) /\ Top.rid \in Rid
  BY <1>1, PathFacts DEF PathOK, Top
<1>3. color[Top.rid] = 1 /\ Top.left \subseteq Extends(cand, Top.rid)
  BY <1>1, <1>2 DEF PathOK, Top
<1>4. Top.rid \in Ifaces
  BY <1>1, <1>2, <1>3 DEF PathOK
<1>. QED
  BY <1>1, <1>3, <1>4 DEF IdleOK, Parents, Ifaces

LEMMA PushStep ==
    ASSUME SearchInv, NEW p \in Rid, path # <<>>, p \in Top.left,
           p \in Ifaces, color[p] = 0,
           color' = [color EXCEPT ![p] = 1],
           path' = Append(Took(p), [rid |-> p, left |-> Extends(cand, p)]),
           UNCHANGED <<phase, cand, findings>>
    PROVE  SearchInv'
<1> DEFINE f == [rid |-> p, left |-> Extends(cand, p)]
           n == Len(path)
<1>1. IsRegistry(cand) /\ PathOK /\ FoundOK /\ Ordered
  BY DEF SearchInv
<1>2. f \in Frame /\ f.rid = p /\ f.left = Extends(cand, p)
  BY <1>1, NewFrame
<1>3. path' = Append(Took(p), f) /\ cand' = cand /\ findings' = findings /\ phase' = phase
  OBVIOUS
<1> HIDE DEF f
<1>4. path \in Seq(Frame) /\ n \in Nat /\ n \in 1..n
  BY <1>1, PathFacts DEF PathOK
<1>5. /\ path' \in Seq(Frame) /\ Len(path') = n + 1 /\ path'[n + 1] = f
      /\ \A i \in 1..n : /\ path'[i].rid = path[i].rid
                         /\ path'[i].left = IF i = n THEN path[i].left \ {p} ELSE path[i].left
  <2>1. /\ Took(p) \in Seq(Frame) /\ Len(Took(p)) = n
        /\ \A i \in 1..n :
              /\ Took(p)[i].rid = path[i].rid
              /\ Took(p)[i].left = IF i = n THEN path[i].left \ {p} ELSE path[i].left
    BY <1>4, TookFacts
  <2>2. PICK q : q = Took(p)
    OBVIOUS
  <2> HIDE DEF n
  <2>3. /\ path' \in Seq(Frame) /\ Len(path') = n + 1 /\ path'[n + 1] = f
        /\ \A i \in 1..n : path'[i] = q[i]
    BY <1>2, <1>3, <2>1, <2>2, PushFacts
  <2>4. ASSUME NEW i \in 1..n
        PROVE  /\ path'[i].rid = path[i].rid
               /\ path'[i].left = IF i = n THEN path[i].left \ {p} ELSE path[i].left
    <3>1. path'[i] = Took(p)[i]
      BY <2>2, <2>3
    <3>. QED
      BY <2>1, <3>1
  <2>. QED
    BY <2>3, <2>4
<1>0. /\ \A q \in Rid : color[q] = 1 => \E i \in 1..n : path[i].rid = q
      /\ \A i \in 1..n : /\ path[i].rid \in Rid /\ color[path[i].rid] = 1
                         /\ path[i].left \subseteq Extends(cand, path[i].rid)
      /\ \A i, j \in 1..n : path[i].rid = path[j].rid => i = j
      /\ \A i \in 1..n - 1 : path[i + 1].rid \in Extends(cand, path[i].rid)
      /\ NoCycleFound => \A i \in 1..n, q \in Rid :
                            q \in Seen(i) => q \in Done \/ (i < n /\ q = path[i + 1].rid)
      /\ p \in Extends(cand, path[n].rid)
  BY <1>1, PathFacts, TakenFacts, Zenon DEF PathOK, Ordered, Top
<1> HIDE DEF n
<1>6. \A i \in 1..Len(path') : i \in 1..n \/ i = n + 1
  BY <1>4, <1>5
<1>7. /\ color \in [Rid -> 0..2] /\ color' \in [Rid -> 0..2] /\ color'[p] = 1
      /\ \A q \in Rid : q # p => color'[q] = color[q]
  BY <1>1 DEF PathOK
<1>8. \A i \in 1..n : path[i].rid \in Rid /\ color[path[i].rid] = 1 /\ path[i].rid # p
  BY <1>0
<1>9. p \in Extends(cand, path[n].rid)
  BY <1>0
<1>10. PathOK'
  <2>1. \A q \in Rid : color'[q] # 0 => q \in Ifaces'
    BY <1>1, <1>3, <1>7, IfacesStay DEF PathOK
  <2>2. ASSUME NEW q \in Rid, color'[q] = 1
        PROVE  \E i \in 1..Len(path') : path'[i].rid = q
    <3>1. CASE q = p
      BY <1>2, <1>4, <1>5, <3>1
    <3>2. CASE q # p
      <4>1. PICK i \in 1..n : path[i].rid = q
        BY <1>0, <1>7, <2>2, <3>2
      <4>2. i \in 1..Len(path')
        BY <1>4, <1>5, <4>1
      <4>3. path'[i].rid = q
        BY <1>5, <4>1, Zenon
      <4>. QED
        BY <4>2, <4>3
    <3>. QED
      BY <3>1, <3>2
  <2>3. ASSUME NEW i \in 1..Len(path')
        PROVE  /\ color'[path'[i].rid] = 1
               /\ path'[i].left \subseteq Extends(cand, path'[i].rid)
    <3>1. CASE i \in 1..n
      <4>1. path'[i].rid = path[i].rid /\ path'[i].left \subseteq path[i].left
        BY <1>5, <3>1
      <4>2. /\ color[path[i].rid] = 1 /\ path[i].rid \in Rid /\ path[i].rid # p
            /\ path[i].left \subseteq Extends(cand, path[i].rid)
        BY <1>0, <1>8, <3>1
      <4>3. color'[path[i].rid] = 1
        BY <1>7, <4>2
      <4>. QED
        BY <4>1, <4>2, <4>3
    <3>2. CASE i = n + 1
      BY <1>2, <1>5, <1>7, <3>2
    <3>. QED
      BY <1>6, <3>1, <3>2
  <2>4. ASSUME NEW i \in 1..Len(path'), NEW j \in 1..Len(path'), path'[i].rid = path'[j].rid
        PROVE  i = j
    <3>1. CASE i \in 1..n /\ j \in 1..n
      <4>1. path[i].rid = path[j].rid
        BY <1>5, <2>4, <3>1
      <4>. QED
        BY <1>0, <3>1, <4>1, Zenon
    <3>2. CASE i = n + 1 \/ j = n + 1
      <4>1. path'[n + 1].rid = p
        BY <1>2, <1>5
      <4>2. ASSUME NEW k \in 1..n
            PROVE  path'[k].rid # p
        BY <1>5, <1>8
      <4>. QED
        BY <1>6, <2>4, <3>2, <4>1, <4>2
    <3>. QED
      BY <1>6, <3>1, <3>2
  <2>5. ASSUME NEW i \in 1..Len(path') - 1
        PROVE  path'[i + 1].rid \in Extends(cand, path'[i].rid)
    <3>1. i \in 1..n
      BY <1>4, <1>5
    <3>2. CASE i = n
      BY <1>2, <1>4, <1>5, <1>9, <3>2
    <3>3. CASE i # n
      <4>1. i \in 1..n - 1 /\ i + 1 \in 1..n
        BY <1>4, <3>1, <3>3
      <4>. QED
        BY <1>0, <1>5, <3>1, <4>1
    <3>. QED
      BY <3>2, <3>3
  <2>. QED
    BY <1>3, <1>5, <1>7, <2>1, <2>2, <2>3, <2>4, <2>5 DEF PathOK
<1>11. Done' = Done
  BY <1>7 DEF Done
<1>12. Ordered'
  <2> SUFFICES ASSUME NoCycleFound, NEW i \in 1..Len(path'), NEW q \in Rid, q \in Seen(i)'
               PROVE  q \in Done \/ (i < Len(path') /\ q = path'[i + 1].rid)
    BY <1>1, <1>3, <1>11, IfacesStay DEF Ordered, NoCycleFound
  <2>1. q \in Parents(cand, path'[i].rid) \ path'[i].left
    BY <1>3, IfacesStay DEF Seen
  <2>2. CASE i = n + 1
    BY <1>2, <1>5, <2>1, <2>2 DEF Parents
  <2>3. CASE i \in 1..n /\ i # n
    <3>1. path'[i].rid = path[i].rid /\ path'[i].left = path[i].left
      BY <1>5, <2>3
    <3>2. q \in Seen(i)
      BY <2>1, <3>1 DEF Seen
    <3>3. i + 1 \in 1..n /\ i < Len(path')
      BY <1>4, <1>5, <2>3
    <3>4. path'[i + 1].rid = path[i + 1].rid
      BY <1>5, <3>3
    <3>. QED
      BY <1>0, <2>3, <3>2, <3>3, <3>4
  <2>4. CASE i = n
    <3>1. q \in Seen(n) \/ q = p
      BY <1>4, <1>5, <2>1, <2>4 DEF Seen
    <3>2. q \in Done \/ q = p
      BY <1>0, <1>4, <3>1
    <3>. QED
      BY <1>2, <1>4, <1>5, <2>4, <3>2
  <2>. QED
    BY <1>6, <2>2, <2>3, <2>4
<1>13. FoundOK'
  BY <1>1, <1>3, IfacesStay DEF FoundOK
<1>14. phase' = "search"
  BY <1>3, TakenFacts
<1>. QED
  BY <1>1, <1>3, <1>10, <1>12, <1>13, <1>14, IfacesStay DEF SearchInv, IdleOK

(* A parent that is not entered leaves the frames as they are, but for     *)
(* itself.                                                                 *)
LEMMA TakeKeepsPath ==
    ASSUME SearchInv, NEW p \in Rid, path # <<>>, p \in Top.left,
           color' = color, path' = Took(p), cand' = cand
    PROVE  /\ PathOK'
           /\ Len(path') = Len(path)
           /\ \A i \in 1..Len(path) :
                 /\ path'[i].rid = path[i].rid
                 /\ path'[i].left = IF i = Len(path) THEN path[i].left \ {p} ELSE path[i].left
<1> DEFINE n == Len(path)
<1>1. PathOK /\ path \in Seq(Frame) /\ n \in Nat
  BY PathFacts DEF SearchInv, PathOK
<1>2. /\ path' \in Seq(Frame) /\ Len(path') = n
      /\ \A i \in 1..n :
            /\ path'[i].rid = path[i].rid
            /\ path'[i].left = IF i = n THEN path[i].left \ {p} ELSE path[i].left
  BY <1>1, TookFacts
<1>3. /\ \A q \in Rid : color[q] = 1 => \E i \in 1..n : path[i].rid = q
      /\ \A q \in Rid : color[q] # 0 => q \in Ifaces
      /\ \A i \in 1..n : /\ color[path[i].rid] = 1
                         /\ path[i].left \subseteq Extends(cand, path[i].rid)
      /\ \A i, j \in 1..n : path[i].rid = path[j].rid => i = j
      /\ \A i \in 1..n - 1 : path[i + 1].rid \in Extends(cand, path[i].rid)
      /\ color \in [Rid -> 0..2]
  BY <1>1, Zenon DEF PathOK
<1> HIDE DEF n
<1>4. Ifaces' = Ifaces
  BY IfacesStay
<1>5. \A i \in 1..n : path'[i].rid = path[i].rid /\ path'[i].left \subseteq path[i].left
  BY <1>2
<1>6. \A i \in 1..n - 1 : i \in 1..n /\ i + 1 \in 1..n
  BY <1>1 DEF n
<1>7. /\ \A q \in Rid : color'[q] = 1 => \E i \in 1..n : path'[i].rid = q
      /\ \A q \in Rid : color'[q] # 0 => q \in Ifaces'
      /\ \A i \in 1..n : /\ color'[path'[i].rid] = 1
                         /\ path'[i].left \subseteq Extends(cand', path'[i].rid)
      /\ \A i, j \in 1..n : path'[i].rid = path'[j].rid => i = j
      /\ color' \in [Rid -> 0..2]
  <2>1. \A i \in 1..n : /\ color'[path'[i].rid] = 1
                        /\ path'[i].left \subseteq Extends(cand', path'[i].rid)
    BY <1>3, <1>5
  <2>2. \A i, j \in 1..n : path'[i].rid = path'[j].rid => i = j
    BY <1>3, <1>5
  <2>3. \A q \in Rid : color'[q] = 1 => \E i \in 1..n : path'[i].rid = q
    <3> SUFFICES ASSUME NEW q \in Rid, color[q] = 1
                 PROVE  \E i \in 1..n : path'[i].rid = q
      OBVIOUS
    <3>1. PICK i \in 1..n : path[i].rid = q
      BY <1>3
    <3>2. path'[i].rid = q
      BY <1>5, <3>1
    <3>. QED
      BY <3>2
  <2>. QED
    BY <1>3, <1>4, <2>1, <2>2, <2>3
<1>8. \A i \in 1..n - 1 : path'[i + 1].rid \in Extends(cand', path'[i].rid)
  BY <1>3, <1>5, <1>6
<1>. QED
  BY <1>2, <1>7, <1>8, Zenon DEF PathOK, n

LEMMA PassStep ==
    ASSUME SearchInv, NEW p \in Rid, path # <<>>, p \in Top.left,
           p \notin Ifaces \/ color[p] = 2,
           path' = Took(p),
           UNCHANGED <<color, phase, cand, findings>>
    PROVE  SearchInv'
<1> DEFINE n == Len(path)
<1>1. IsRegistry(cand) /\ FoundOK /\ Ordered /\ n \in Nat
  BY PathFacts DEF SearchInv, PathOK
<1>2. /\ PathOK' /\ Len(path') = n
      /\ \A i \in 1..n :
            /\ path'[i].rid = path[i].rid
            /\ path'[i].left = IF i = n THEN path[i].left \ {p} ELSE path[i].left
  BY TakeKeepsPath
<1>3. Done' = Done
  BY DEF Done
<1>4. NoCycleFound => \A i \in 1..n, q \in Rid :
                         q \in Seen(i) => q \in Done \/ (i < n /\ q = path[i + 1].rid)
  BY <1>1, Zenon DEF Ordered
<1> HIDE DEF n
<1>5. Ordered'
  <2> SUFFICES ASSUME NoCycleFound, NEW i \in 1..n, NEW q \in Rid, q \in Seen(i)'
               PROVE  q \in Done \/ (i < n /\ q = path'[i + 1].rid)
    BY <1>1, <1>2, <1>3, IfacesStay DEF Ordered, NoCycleFound
  <2>1. q \in Parents(cand, path[i].rid) /\ q \notin path'[i].left
    BY <1>2, IfacesStay DEF Seen
  <2>2. q \in Seen(i) \/ q = p
    BY <1>2, <2>1 DEF Seen
  <2>3. CASE q = p
    BY <2>1, <2>3 DEF Parents, Ifaces, Done
  <2>4. CASE q \in Seen(i)
    <3>1. CASE i < n /\ q = path[i + 1].rid
      <4>1. i + 1 \in 1..n
        BY <1>1, <3>1
      <4>. QED
        BY <1>2, <3>1, <4>1
    <3>. QED
      BY <1>4, <2>4, <3>1
  <2>. QED
    BY <2>2, <2>3, <2>4
<1>6. FoundOK'
  BY <1>1, IfacesStay DEF FoundOK
<1>7. phase' = "search"
  BY TakenFacts
<1>. QED
  BY <1>1, <1>2, <1>5, <1>6, <1>7, IfacesStay DEF SearchInv, IdleOK

(* The frames from a parent in progress on extend each other in a ring.    *)
LEMMA CycleIsReal ==
    ASSUME SearchInv, NEW p \in Rid, path # <<>>, p \in Top.left, color[p] = 1
    PROVE  RealCycle(Finding("INTERFACE_EXTENDS_CYCLE", p, CycleAt(p)))
<1> DEFINE n == Len(path)
           On == {j \in 1..n : \E k \in 1..j : path[k].rid = p}
<1>1. path \in Seq(Frame) /\ n \in Nat /\ n \in 1..n
  BY PathFacts DEF SearchInv, PathOK
<1>2. /\ \E i \in 1..n : path[i].rid = p
      /\ \A i \in 1..n : color[path[i].rid] = 1 /\ path[i].rid \in Rid
      /\ \A q \in Rid : color[q] # 0 => q \in Ifaces
      /\ \A i \in 1..n - 1 : path[i + 1].rid \in Extends(cand, path[i].rid)
      /\ p \in Extends(cand, path[n].rid)
  BY <1>1, PathFacts, TakenFacts, Zenon DEF SearchInv, PathOK, Top
<1>3. CycleAt(p) = {path[i].rid : i \in On}
  BY DEF CycleAt
<1> HIDE DEF n
<1>4. PICK k \in 1..n : path[k].rid = p
  BY <1>2
<1>5. k \in On /\ n \in On
  BY <1>1, <1>4
<1>6. p \in CycleAt(p)
  BY <1>3, <1>4, <1>5
<1>7. CycleAt(p) \subseteq Ifaces
  BY <1>2, <1>3
<1>8. ASSUME NEW r \in CycleAt(p)
      PROVE  Extends(cand, r) \cap CycleAt(p) # {}
  <2>1. PICK i \in On : r = path[i].rid
    BY <1>3
  <2>2. CASE i = n
    BY <1>2, <1>6, <2>1, <2>2
  <2>3. CASE i # n
    <3>1. i \in 1..n - 1 /\ i + 1 \in 1..n
      BY <1>1, <2>3
    <3>2. i + 1 \in On
      <4>1. PICK m \in 1..i : path[m].rid = p
        BY <2>1
      <4>2. m \in 1..i + 1
        BY <3>1
      <4>. QED
        BY <3>1, <4>1, <4>2
    <3>3. path[i + 1].rid \in CycleAt(p)
      BY <1>3, <3>2
    <3>4. path[i + 1].rid \in Extends(cand, r)
      BY <1>2, <2>1, <3>1
    <3>. QED
      BY <3>3, <3>4
  <2>. QED
    BY <2>2, <2>3
<1> DEFINE C == CycleAt(p)
           f == Finding("INTERFACE_EXTENDS_CYCLE", p, C)
<1>9. f.code = "INTERFACE_EXTENDS_CYCLE" /\ f.at = p /\ f.about = C
  BY FindingFields
<1>10. p \in C /\ C \subseteq Ifaces /\ \A r \in C : Extends(cand, r) \cap C # {}
  BY <1>6, <1>7, <1>8
<1> HIDE DEF f, C
<1>11. RealCycle(f)
  BY <1>9, <1>10 DEF RealCycle
<1>. QED
  BY <1>11 DEF f, C

LEMMA CycleStep ==
    ASSUME SearchInv, NEW p \in Rid, path # <<>>, p \in Top.left, color[p] = 1,
           findings' = findings \cup {Finding("INTERFACE_EXTENDS_CYCLE", p, CycleAt(p))},
           path' = Took(p),
           UNCHANGED <<color, phase, cand>>
    PROVE  SearchInv'
<1> DEFINE f == Finding("INTERFACE_EXTENDS_CYCLE", p, CycleAt(p))
<1>1. RealCycle(f) /\ f.code = "INTERFACE_EXTENDS_CYCLE"
  BY CycleIsReal, FindingFields
<1>2. findings' = findings \cup {f}
  OBVIOUS
<1> HIDE DEF f
<1>3. PathOK' /\ phase = "search"
  BY TakeKeepsPath, TakenFacts
<1>4. Ordered'
  BY <1>1, <1>2 DEF Ordered, NoCycleFound
<1>5. FoundOK'
  <2>1. FoundOK
    BY DEF SearchInv
  <2>2. \A g : RealCycle(g)' <=> RealCycle(g)
    BY IfacesStay
  <2>3. \A g \in findings' : g \in Checks(cand') \/ RealCycle(g)'
    BY <1>1, <1>2, <2>1, <2>2 DEF FoundOK
  <2>. QED
    BY <1>2, <2>1, <2>3 DEF FoundOK
<1>. QED
  BY <1>3, <1>4, <1>5, IfacesStay DEF SearchInv, IdleOK

LEMMA FollowStep ==
    ASSUME SearchInv, NEW p \in Rid, Follow(p)
    PROVE  SearchInv'
<1>1. path # <<>> /\ p \in Top.left /\ phase' = phase /\ cand' = cand
  BY DEF Follow
<1>2. CASE /\ p \in Ifaces /\ color[p] = 0 /\ color' = [color EXCEPT ![p] = 1]
           /\ path' = Append(Took(p), [rid |-> p, left |-> Extends(cand, p)])
           /\ findings' = findings
  BY <1>1, <1>2, PushStep
<1>3. CASE /\ color[p] = 1 /\ path' = Took(p) /\ color' = color
           /\ findings' = findings \cup {Finding("INTERFACE_EXTENDS_CYCLE", p, CycleAt(p))}
  BY <1>1, <1>3, CycleStep
<1>4. CASE /\ p \notin Ifaces \/ color[p] = 2
           /\ path' = Took(p) /\ color' = color /\ findings' = findings
  BY <1>1, <1>4, PassStep
<1>. QED
  BY <1>2, <1>3, <1>4 DEF Follow, Ifaces

-----------------------------------------------------------------------------
(* All parents of the frame on top are taken: it is done.                  *)

LEMMA LeaveStep ==
    ASSUME SearchInv, Leave
    PROVE  SearchInv'
<1> DEFINE n == Len(path)
           r == path[n].rid
<1>1. /\ path # <<>> /\ path[n].left = {} /\ path' = Front(path)
      /\ color' = [color EXCEPT ![r] = 2]
      /\ phase' = phase /\ cand' = cand /\ findings' = findings
  BY DEF Leave, Top
<1>2. IsRegistry(cand) /\ PathOK /\ FoundOK /\ Ordered /\ IdleOK /\ phase \in {"idle", "search"}
  BY DEF SearchInv
<1>3. n \in Nat /\ n \in 1..n /\ n - 1 \in Nat /\ r \in Rid
  BY <1>1, <1>2, PathFacts DEF PathOK
<1>4. /\ path' \in Seq(Frame) /\ Len(path') = n - 1
      /\ \A i \in 1..n - 1 : path'[i] = path[i]
  BY <1>1, <1>2, FrontFacts DEF PathOK
<1>5. /\ \A q \in Rid : color[q] = 1 => \E i \in 1..n : path[i].rid = q
      /\ \A q \in Rid : color[q] # 0 => q \in Ifaces
      /\ \A i \in 1..n : /\ path[i].rid \in Rid /\ color[path[i].rid] = 1
                         /\ path[i].left \subseteq Extends(cand, path[i].rid)
      /\ \A i, j \in 1..n : path[i].rid = path[j].rid => i = j
      /\ \A i \in 1..n - 1 : path[i + 1].rid \in Extends(cand, path[i].rid)
      /\ NoCycleFound => \A i \in 1..n, q \in Rid :
                            q \in Seen(i) => q \in Done \/ (i < n /\ q = path[i + 1].rid)
  BY <1>2, PathFacts, Zenon DEF PathOK, Ordered
<1>6. color \in [Rid -> 0..2]
  BY <1>2 DEF PathOK
<1>7. \A i \in 1..n - 1 : i \in 1..n /\ i # n /\ path'[i].rid = path[i].rid
                         /\ path'[i].left = path[i].left
  BY <1>3, <1>4
<1>8. \A i \in 1..n - 1 : path[i].rid # r
  BY <1>3, <1>5, <1>7
<1>9. Seen(n) = Parents(cand, r)
  BY <1>1 DEF Seen
<1> HIDE DEF n, r
<1>10. /\ color' \in [Rid -> 0..2] /\ color'[r] = 2
       /\ \A q \in Rid : q # r => color'[q] = color[q]
  BY <1>1, <1>3, <1>6
<1>11. color[r] = 1 /\ r \in Ifaces
  BY <1>3, <1>5 DEF r
<1>12. Done' = Done \cup {r} /\ r \notin Done
  BY <1>3, <1>10, <1>11 DEF Done
<1>13. PathOK'
  <2>1. \A q \in Rid : color'[q] # 0 => q \in Ifaces'
    BY <1>1, <1>5, <1>10, <1>11, IfacesStay
  <2>2. ASSUME NEW q \in Rid, color'[q] = 1
        PROVE  \E i \in 1..n - 1 : path'[i].rid = q
    <3>1. q # r /\ color[q] = 1
      BY <1>10, <2>2
    <3>2. PICK i \in 1..n : path[i].rid = q
      BY <1>5, <3>1
    <3>3. i \in 1..n - 1
      BY <1>3, <3>1, <3>2 DEF r
    <3>. QED
      BY <1>7, <3>2, <3>3
  <2>3. \A i \in 1..n - 1 : /\ color'[path'[i].rid] = 1
                            /\ path'[i].left \subseteq Extends(cand', path'[i].rid)
    <3> SUFFICES ASSUME NEW i \in 1..n - 1
                 PROVE  /\ color'[path[i].rid] = 1
                        /\ path[i].left \subseteq Extends(cand, path[i].rid)
      BY <1>1, <1>7
    <3>1. i \in 1..n /\ path[i].rid # r
      BY <1>7, <1>8
    <3>. QED
      BY <1>5, <1>10, <3>1
  <2>4. \A i, j \in 1..n - 1 : path'[i].rid = path'[j].rid => i = j
    BY <1>5, <1>7
  <2>5. \A i \in 1..(n - 1) - 1 : path'[i + 1].rid \in Extends(cand', path'[i].rid)
    <3> SUFFICES ASSUME NEW i \in 1..(n - 1) - 1
                 PROVE  path'[i + 1].rid \in Extends(cand, path'[i].rid)
      BY <1>1
    <3>1. i \in 1..n - 1 /\ i + 1 \in 1..n - 1
      BY <1>3
    <3>. QED
      BY <1>5, <1>7, <3>1
  <2>. QED
    BY <1>4, <1>10, <2>1, <2>2, <2>3, <2>4, <2>5 DEF PathOK
<1>14. ASSUME NoCycleFound
       PROVE  /\ \A q \in Done' : Parents(cand, q) \subseteq Done'
              /\ \A S \in SUBSET Done' : S # {} => \E q \in S : Extends(cand, q) \cap S = {}
              /\ \A i \in 1..n - 1, q \in Rid :
                    q \in Seen(i)' => q \in Done' \/ (i < n - 1 /\ q = path'[i + 1].rid)
  <2>1. Parents(cand, r) \subseteq Done
    <3> SUFFICES ASSUME NEW q \in Parents(cand, r)  PROVE q \in Done
      OBVIOUS
    <3>1. q \in Rid /\ q \in Seen(n)
      BY <1>9 DEF Parents, Of
    <3>2. ~(n < n)
      BY <1>3
    <3>. QED
      BY <1>3, <1>5, <1>14, <3>1, <3>2
  <2>2. \A q \in Done : Parents(cand, q) \subseteq Done
    BY <1>2, <1>14 DEF Ordered
  <2>3. ASSUME NEW S \in SUBSET Done', S # {}
        PROVE  \E q \in S : Extends(cand, q) \cap S = {}
    <3>1. CASE S \cap Done # {}
      <4>1. PICK q \in S \cap Done : Extends(cand, q) \cap (S \cap Done) = {}
        BY <1>2, <1>14, <3>1 DEF Ordered
      <4>2. r \notin Extends(cand, q)
        BY <1>11, <1>12, <2>2, <4>1 DEF Parents, Ifaces
      <4>. QED
        BY <1>12, <4>1, <4>2
    <3>2. CASE S \cap Done = {}
      <4>1. S = {r}
        BY <1>12, <2>3, <3>2
      <4>2. r \notin Extends(cand, r)
        BY <1>11, <1>12, <2>1 DEF Parents, Ifaces
      <4>. QED
        BY <4>1, <4>2
    <3>. QED
      BY <3>1, <3>2
  <2>4. ASSUME NEW i \in 1..n - 1, NEW q \in Rid, q \in Seen(i)'
        PROVE  q \in Done' \/ (i < n - 1 /\ q = path'[i + 1].rid)
    <3>1. q \in Seen(i)
      BY <1>1, <1>7, <2>4, IfacesStay DEF Seen
    <3>2. i \in 1..n
      BY <1>7
    <3>3. q \in Done \/ q = path[i + 1].rid
      BY <1>5, <1>14, <3>1, <3>2
    <3>4. CASE i = n - 1
      <4>1. path[i + 1].rid = r
        BY <1>3, <3>4 DEF r
      <4>. QED
        BY <1>12, <3>3, <4>1
    <3>5. CASE i # n - 1
      <4>1. i < n - 1 /\ i + 1 \in 1..n - 1
        BY <1>3, <3>5
      <4>. QED
        BY <1>7, <1>12, <3>3, <4>1
    <3>. QED
      BY <3>4, <3>5
  <2>. QED
    BY <1>12, <2>1, <2>2, <2>3, <2>4
<1>15. Ordered'
  BY <1>1, <1>4, <1>14, IfacesStay DEF Ordered, NoCycleFound
<1>16. FoundOK'
  BY <1>1, <1>2, IfacesStay DEF FoundOK
<1>17. phase = "search"
  BY <1>1, <1>2 DEF IdleOK
<1>. QED
  BY <1>1, <1>2, <1>13, <1>15, <1>16, <1>17, IfacesStay DEF SearchInv, IdleOK

-----------------------------------------------------------------------------
(* When the search is over, what was found decides.                        *)

LEMMA SearchDecides ==
    ASSUME SearchInv, Searched
    PROVE  Errors(findings) = {} <=> Sound(cand)
<1>1. IsRegistry(cand) /\ PathOK /\ FoundOK /\ Ordered /\ phase = "search" /\ path = <<>>
  BY DEF SearchInv, Searched
<1>2. Checks(cand) \subseteq findings /\ \A f \in findings : f \in Checks(cand) \/ RealCycle(f)
  BY <1>1 DEF FoundOK
<1>3. Errors(Checks(cand)) = {} <=> \A r \in Defined(cand) : SoundDefinition(cand, r)
  BY <1>1, ChecksExact
<1>4. ASSUME Errors(findings) = {}
      PROVE  Sound(cand)
  <2>1. NoCycleFound
    <3> SUFFICES ASSUME NEW f \in findings, f.code = "INTERFACE_EXTENDS_CYCLE"  PROVE FALSE
      BY DEF NoCycleFound
    <3>1. f.code # "ASSET_MAPPING_EMPTY"
      OBVIOUS
    <3>. QED
      BY <1>4, <3>1 DEF Errors
  <2>2. Ifaces \subseteq Done
    <3> SUFFICES ASSUME NEW r \in Ifaces  PROVE r \in Done
      OBVIOUS
    <3>1. r \in Rid /\ color[r] # 0
      BY DEF Ifaces, Of, Searched
    <3>2. color[r] # 1
      <4>1. Len(path) = 0 /\ 1..0 = {}
        BY <1>1
      <4>. QED
        BY <1>1, <3>1, <4>1 DEF PathOK
    <3>3. color[r] \in 0..2
      BY <1>1, <3>1 DEF PathOK
    <3>. QED
      BY <3>1, <3>2, <3>3 DEF Done
  <2>3. Acyclic(cand)
    BY <1>1, <2>1, <2>2 DEF Ordered, Acyclic, Ifaces
  <2>4. Errors(Checks(cand)) = {}
    BY <1>2, <1>4 DEF Errors
  <2>. QED
    BY <1>3, <2>3, <2>4, SoundParts
<1>5. ASSUME Sound(cand)
      PROVE  Errors(findings) = {}
  <2>1. Errors(Checks(cand)) = {} /\ Acyclic(cand)
    BY <1>3, <1>5, SoundParts
  <2>2. \A f \in findings : ~RealCycle(f)
    BY <2>1 DEF RealCycle, Acyclic, Ifaces
  <2>. QED
    BY <1>2, <2>1, <2>2 DEF Errors
<1>. QED
  BY <1>4, <1>5

LEMMA RestOK ==
    ASSUME path = <<>>, color = Unseen
    PROVE  PathOK /\ Ordered
<1>1. Len(path) = 0 /\ 1..0 = {} /\ 1..0 - 1 = {} /\ path \in Seq(Frame)
  OBVIOUS
<1>2. color \in [Rid -> 0..2] /\ \A r \in Rid : color[r] = 0
  BY DEF Unseen
<1>3. Done = {}
  BY <1>2 DEF Done
<1>4. PathOK
  BY <1>1, <1>2 DEF PathOK
<1>. QED
  BY <1>1, <1>3, <1>4 DEF Ordered

LEMMA RestOKNext ==
    ASSUME path' = <<>>, color' = Unseen
    PROVE  PathOK' /\ Ordered'
<1>1. Len(path') = 0 /\ 1..0 = {} /\ 1..0 - 1 = {} /\ path' \in Seq(Frame)
  OBVIOUS
<1>2. color' \in [Rid -> 0..2] /\ \A r \in Rid : color'[r] = 0
  BY DEF Unseen
<1>3. Done' = {}
  BY <1>2 DEF Done
<1>4. PathOK'
  BY <1>1, <1>2 DEF PathOK
<1>. QED
  BY <1>1, <1>3, <1>4 DEF Ordered

LEMMA NothingFacts == IsRegistry(Nothing) /\ Sound(Nothing)
<1>1. IsRegistry(Nothing)
  BY DEF IsRegistry, Nothing
<1>2. Defined(Nothing) = {} /\ Of(Nothing, "iface") = {}
  BY DEF Defined, Of, Nothing
<1>3. Acyclic(Nothing)
  BY <1>2 DEF Acyclic
<1>. QED
  BY <1>1, <1>2, <1>3, SoundParts

LEMMA ReplacedIsRegistry ==
    ASSUME NEW reg, IsRegistry(reg), NEW r \in Rid,
           NEW d, d = Absent \/ d \in DefinitionOf(KindOf[r])
    PROVE  /\ IsRegistry([reg EXCEPT ![r] = d])
           /\ [reg EXCEPT ![r] = d][r] = d
           /\ \A q \in Rid : q # r => [reg EXCEPT ![r] = d][q] = reg[q]
<1>1. DOMAIN reg = Rid /\ reg = [q \in Rid |-> reg[q]]
  BY DEF IsRegistry
<1>2. [reg EXCEPT ![r] = d] = [q \in Rid |-> IF q = r THEN d ELSE reg[q]]
  BY <1>1
<1>. QED
  BY <1>2 DEF IsRegistry

-----------------------------------------------------------------------------
(* The invariant, step by step.                                            *)

LEMMA ValidateStep ==
    ASSUME RulesInv, NEW reg, IsRegistry(reg), Validate(reg)
    PROVE  RulesInv'
<1>1. /\ phase = "idle" /\ phase' = "search" /\ cand' = reg /\ findings' = Checks(reg)
      /\ menu' = menu /\ stored' = stored /\ color' = color /\ path' = path
  BY DEF Validate
<1>2. IdleOK /\ StoredOK
  BY DEF RulesInv, SearchInv
<1>3. path' = <<>> /\ color' = Unseen'
  BY <1>1, <1>2 DEF IdleOK, Unseen
<1>4. PathOK' /\ Ordered'
  BY <1>3, RestOKNext DEF Unseen
<1>5. IsRegistry(cand)' /\ FoundOK'
  BY <1>1 DEF IsRegistry, FoundOK
<1>6. StoredOK'
  BY <1>1, <1>2 DEF StoredOK, IsRegistry
<1>. QED
  BY <1>1, <1>4, <1>5, <1>6 DEF RulesInv, SearchInv, IdleOK

LEMMA DecideStep ==
    ASSUME RulesInv, Decide
    PROVE  RulesInv'
<1>1. /\ Searched
      /\ stored' = IF Errors(findings) = {} THEN cand ELSE stored
      /\ phase' = "idle" /\ cand' = Nothing /\ color' = Unseen /\ findings' = {}
      /\ menu' = menu /\ path' = path /\ path = <<>>
  BY DEF Decide, Searched
<1>2. SearchInv /\ StoredOK
  BY DEF RulesInv
<1>3. path' = <<>> /\ color' = Unseen'
  BY <1>1 DEF Unseen
<1>4. PathOK' /\ Ordered'
  BY <1>3, RestOKNext DEF Unseen
<1>5. IsRegistry(cand)' /\ FoundOK'
  BY <1>1, NothingFacts DEF IsRegistry, FoundOK
<1>6. StoredOK'
  <2>1. CASE Errors(findings) = {}
    <3>1. Sound(cand) /\ IsRegistry(cand)
      BY <1>1, <1>2, <2>1, SearchDecides DEF SearchInv
    <3>. QED
      BY <1>1, <1>2, <2>1, <3>1 DEF StoredOK
  <2>2. CASE Errors(findings) # {}
    BY <1>1, <1>2, <2>2 DEF StoredOK
  <2>. QED
    BY <2>1, <2>2
<1>7. Nothing' = Nothing /\ Unseen' = Unseen
  BY DEF Nothing, Unseen
<1>. QED
  BY <1>1, <1>3, <1>4, <1>5, <1>6, <1>7 DEF RulesInv, SearchInv, IdleOK

(* The fields of one kind refer to other kinds, but for extends.           *)
LEMMA OwnKind ==
    ASSUME NEW kind \in Kinds, NEW field \in Fields[kind], Expected[field] = kind
    PROVE  kind = "iface" /\ field = "extends"
BY DEF Kinds, Fields, Expected

LEMMA BearersOnly ==
    ASSUME NEW reg, IsRegistry(reg), NEW q \in Defined(reg), reg[q].props # {}
    PROVE  KindOf[q] \in {"obj", "link"}
<1>1. reg[q] \in DefinitionOf(KindOf[q]) /\ KindOf[q] \in Kinds
  BY RulesAssumption DEF Defined, IsRegistry
<1>. QED
  BY <1>1, DefinitionFields

(* What nothing refers to can go.                                          *)
LEMMA RemovalIsSound ==
    ASSUME NEW reg, IsRegistry(reg), Sound(reg), NEW r \in Defined(reg), Referrers(reg, r) = {}
    PROVE  Sound([reg EXCEPT ![r] = Absent])
<1> DEFINE new == [reg EXCEPT ![r] = Absent]
<1>1. /\ IsRegistry(new) /\ new[r] = Absent /\ r \in Rid
      /\ \A q \in Rid : q # r => new[q] = reg[q]
  BY ReplacedIsRegistry DEF Defined
<1> HIDE DEF new
<1>2. \A q \in Defined(new) : q # r /\ q \in Defined(reg) /\ new[q] = reg[q]
  BY <1>1 DEF Defined
<1>3. Of(new, "iface") \subseteq Of(reg, "iface")
  BY <1>1 DEF Of
<1>4. \A q \in Defined(new) : Extends(new, q) = Extends(reg, q)
  BY <1>2 DEF Extends
<1>5. Acyclic(new)
  <2>1. Of(new, "iface") \subseteq Defined(new)
    BY DEF Of, Defined
  <2>. QED
    BY <1>3, <1>4, <2>1, SoundParts DEF Acyclic
<1>6. ASSUME NEW q \in Defined(new)
      PROVE  SoundDefinition(new, q)
  <2>1. q \in Rid /\ q \in Defined(reg) /\ new[q] = reg[q] /\ SoundDefinition(reg, q)
    BY <1>2, SoundParts DEF Defined
  <2>2. \A field \in DOMAIN Expected : <<field, r>> \notin reg[q].refs
    BY <2>1 DEF Referrers, Scanned
  <2>3. \A p \in reg[q].props : p.inherits # Absent => p.inherits # r
    BY <2>1 DEF Referrers, Inherited
  <2>4. ASSUME NEW field \in DOMAIN Expected, NEW t \in Rid, <<field, t>> \in new[q].refs
        PROVE  new[t] # Absent /\ KindOf[t] = Expected[field]
    <3>1. t # r
      BY <2>1, <2>2, <2>4
    <3>. QED
      BY <1>1, <2>1, <2>4, <3>1 DEF SoundDefinition
  <2>5. ASSUME KindOf[q] \in {"obj", "link"}, NEW p \in new[q].props, p.inherits # Absent
        PROVE  /\ KindOf[p.inherits] = "shared" /\ new[p.inherits] # Absent
               /\ new[p.inherits].type = p.type
    <3>1. p.inherits # r
      BY <2>1, <2>3, <2>5
    <3>2. p.inherits \in Rid
      <4>1. reg[q] \in DefinitionOf(KindOf[q]) /\ KindOf[q] \in Kinds
        BY <2>1, RulesAssumption DEF Defined, IsRegistry
      <4>2. p \in PropertyTypes
        BY <2>1, <2>5, <4>1, DefinitionFields
      <4>. QED
        BY <2>5, <4>2 DEF PropertyTypes
    <3>3. new[p.inherits] = reg[p.inherits]
      BY <1>1, <3>1, <3>2
    <3>. QED
      BY <2>1, <2>5, <3>3 DEF SoundDefinition
  <2>6. \A p \in Extends(reg, q) : new[p] = reg[p]
    <3>1. \A p \in Extends(reg, q) : p \in Rid /\ <<"extends", p>> \in reg[q].refs
      BY <2>1, ExtendsIsRef
    <3>. QED
      BY <1>1, <2>2, <3>1, ExtendsIface
  <2>7. KindOf[q] = "iface" =>
           /\ \/ new[q].category = "object" /\ "object_constraint" \notin new[q].shape
              \/ new[q].category = "link" /\ "link_requirements" \notin new[q].shape
           /\ \A p \in Extends(new, q) : new[p].category = new[q].category
    BY <1>4, <2>1, <2>6 DEF SoundDefinition
  <2>8. /\ new[q].named
        /\ KindOf[q] \in {"obj", "link"} =>
              /\ new[q].keys \cup new[q].names \subseteq Names(new[q])
              /\ new[q].conn \in Connections \cup {Unbound}
              /\ \A p \in new[q].props : p.backing \in {{"column"}, {"expression"}}
    BY <2>1, Zenon DEF SoundDefinition
  <2>. QED
    BY <2>4, <2>5, <2>7, <2>8, Zenon DEF SoundDefinition
<1>. QED
  BY <1>5, <1>6, SoundParts DEF new

(* And what something refers to cannot.                                    *)
LEMMA ReferrersBreak ==
    ASSUME NEW reg, IsRegistry(reg), Sound(reg), NEW r \in Defined(reg),
           Sound([reg EXCEPT ![r] = Absent])
    PROVE  Referrers(reg, r) = {}
<1> DEFINE new == [reg EXCEPT ![r] = Absent]
<1>1. /\ IsRegistry(new) /\ new[r] = Absent /\ r \in Rid
      /\ \A q \in Rid : q # r => new[q] = reg[q]
  BY ReplacedIsRegistry DEF Defined
<1>2. Sound(new)
  OBVIOUS
<1> HIDE DEF new
<1>3. r # Absent
  BY <1>1, RulesAssumption
<1>4. SUFFICES ASSUME NEW q \in Defined(reg),
                      \/ \E field \in DOMAIN Expected : <<field, r>> \in reg[q].refs
                      \/ \E p \in reg[q].props : p.inherits = r
               PROVE  FALSE
  BY DEF Referrers, Scanned, Inherited
<1>5. q \in Rid /\ SoundDefinition(reg, q) /\ reg[q] \in DefinitionOf(KindOf[q]) /\ KindOf[q] \in Kinds
  BY SoundParts, RulesAssumption DEF Defined, IsRegistry
<1>6. reg[q].props # {} => KindOf[q] \in {"obj", "link"}
  BY BearersOnly
<1>7. CASE q # r
  <2>1. q \in Defined(new) /\ new[q] = reg[q]
    BY <1>1, <1>5, <1>7 DEF Defined
  <2>2. SoundDefinition(new, q)
    BY <1>2, <2>1, SoundParts
  <2>3. CASE \E field \in DOMAIN Expected : <<field, r>> \in reg[q].refs
    BY <1>1, <2>1, <2>2, <2>3 DEF SoundDefinition
  <2>4. CASE \E p \in reg[q].props : p.inherits = r
    <3>1. KindOf[q] \in {"obj", "link"}
      BY <1>6, <2>4
    <3>. QED
      BY <1>1, <1>3, <2>1, <2>2, <2>4, <3>1 DEF SoundDefinition
  <2>. QED
    BY <1>4, <2>3, <2>4
<1>8. CASE q = r
  <2>1. CASE \E field \in DOMAIN Expected : <<field, r>> \in reg[q].refs
    <3>1. PICK field \in DOMAIN Expected : <<field, r>> \in reg[r].refs
      BY <1>8, <2>1
    <3>2. KindOf[r] = Expected[field]
      BY <1>1, <1>5, <1>8, <3>1 DEF SoundDefinition
    <3>3. field \in Fields[KindOf[r]]
      <4>1. reg[r].refs \subseteq Fields[KindOf[r]] \X Rid
        BY <1>5, <1>8, DefinitionFields
      <4>. QED
        BY <3>1, <4>1
    <3>4. KindOf[r] = "iface" /\ field = "extends"
      BY <1>5, <1>8, <3>2, <3>3, OwnKind
    <3>5. r \in Extends(reg, r) /\ r \in Of(reg, "iface")
      BY <1>1, <1>8, <3>1, <3>4, ExtendsIsRef DEF Of, Defined
    <3>6. {r} \in SUBSET Of(reg, "iface") /\ {r} # {}
      BY <3>5
    <3>. QED
      BY <3>5, <3>6, SoundParts DEF Acyclic
  <2>2. CASE \E p \in reg[q].props : p.inherits = r
    <3>1. KindOf[q] \in {"obj", "link"}
      BY <1>6, <2>2
    <3>2. KindOf[r] = "shared"
      BY <1>3, <1>5, <2>2, <3>1 DEF SoundDefinition
    <3>. QED
      BY <1>8, <3>1, <3>2
  <2>. QED
    BY <1>4, <2>1, <2>2
<1>. QED
  BY <1>7, <1>8

LEMMA SameSearch ==
    ASSUME UNCHANGED <<phase, cand, color, path, findings>>
    PROVE  SearchInv' <=> SearchInv
<1>1. PathOK' <=> PathOK
  BY DEF PathOK, Ifaces, Frame
<1>2. IdleOK' <=> IdleOK
  BY DEF IdleOK, Unseen, Nothing
<1>3. FoundOK' <=> FoundOK
  BY DEF FoundOK, RealCycle, Ifaces
<1>4. Ordered' <=> Ordered
  BY DEF Ordered, NoCycleFound, Done, Seen
<1>5. IsRegistry(cand)' <=> IsRegistry(cand)
  BY DEF IsRegistry
<1>. QED
  BY <1>1, <1>2, <1>3, <1>4, <1>5, Zenon DEF SearchInv

LEMMA DeleteStep ==
    ASSUME RulesInv, NEW r \in Rid, Delete(r)
    PROVE  RulesInv'
<1>1. /\ stored[r] # Absent /\ Referrers(stored, r) = {}
      /\ stored' = [stored EXCEPT ![r] = Absent] /\ menu' = menu
      /\ phase' = phase /\ cand' = cand /\ color' = color /\ path' = path /\ findings' = findings
  BY DEF Delete, searching
<1>2. IsRegistry(stored) /\ Sound(stored) /\ menu \in Menus /\ SearchInv
  BY DEF RulesInv, StoredOK
<1>3. Sound(stored')
  BY <1>1, <1>2, RemovalIsSound DEF Defined
<1>4. IsRegistry(stored')
  BY <1>1, <1>2, ReplacedIsRegistry
<1>5. SearchInv'
  <2>1. SearchInv' <=> SearchInv
    BY <1>1, SameSearch
  <2>. QED
    BY <1>2, <2>1
<1>. QED
  BY <1>1, <1>2, <1>3, <1>4, <1>5 DEF RulesInv, StoredOK

LEMMA RulesInductive == Spec => []RulesInv
<1>1. Init => RulesInv
  <2> SUFFICES ASSUME Init  PROVE RulesInv
    OBVIOUS
  <2>1. /\ menu \in Menus /\ stored = Nothing /\ phase = "idle" /\ cand = Nothing
        /\ color = Unseen /\ path = <<>> /\ findings = {}
    BY DEF Init
  <2>2. PathOK /\ Ordered
    BY <2>1, RestOK
  <2>. QED
    BY <2>1, <2>2, NothingFacts DEF RulesInv, SearchInv, StoredOK, IdleOK, FoundOK
<1>2. RulesInv /\ [Next]_vars => RulesInv'
  <2> SUFFICES ASSUME RulesInv, [Next]_vars  PROVE RulesInv'
    OBVIOUS
  <2>0. menu \in Menus /\ IsRegistry(stored) /\ SearchInv /\ StoredOK
    BY DEF RulesInv, StoredOK
  <2>1. ASSUME NEW r \in Rid, NEW d \in menu[r], Put(r, d)
        PROVE  RulesInv'
    <3>1. d \in DefinitionOf(KindOf[r])
      BY <2>0, MenusAssumption
    <3>2. IsRegistry([stored EXCEPT ![r] = d])
      BY <2>0, <3>1, ReplacedIsRegistry
    <3>. QED
      BY <2>1, <3>2, ValidateStep DEF Put
  <2>2. ASSUME NEW r \in Rid, NEW conn \in Conns, Bind(r, conn)
        PROVE  RulesInv'
    <3>1. r \in Defined(stored)
      BY <2>2 DEF Bind, Bearers, Of, Defined
    <3>2. stored[r] \in DefinitionOf(KindOf[r]) /\ KindOf[r] \in Kinds
      BY <2>0, <3>1, RulesAssumption DEF Defined, IsRegistry
    <3>3. [stored[r] EXCEPT !.conn = conn] \in DefinitionOf(KindOf[r])
      BY <3>2, RebindIsDefinition
    <3>4. [stored EXCEPT ![r].conn = conn] = [stored EXCEPT ![r] = [stored[r] EXCEPT !.conn = conn]]
      OBVIOUS
    <3>5. IsRegistry([stored EXCEPT ![r].conn = conn])
      BY <2>0, <3>3, <3>4, ReplacedIsRegistry
    <3>. QED
      BY <2>2, <3>5, ValidateStep DEF Bind
  <2>3. ASSUME SearchInv', menu' = menu, stored' = stored
        PROVE  RulesInv'
    BY <2>0, <2>3 DEF RulesInv, StoredOK, IsRegistry
  <2>4. ASSUME NEW r \in Rid, Enter(r)
        PROVE  RulesInv'
    BY <2>0, <2>3, <2>4, EnterStep DEF Enter
  <2>5. ASSUME NEW r \in Rid, Follow(r)
        PROVE  RulesInv'
    BY <2>0, <2>3, <2>5, FollowStep DEF Follow
  <2>6. CASE Leave
    BY <2>0, <2>3, <2>6, LeaveStep DEF Leave
  <2>7. CASE Decide
    BY <2>7, DecideStep
  <2>8. ASSUME NEW r \in Rid, Delete(r)
        PROVE  RulesInv'
    BY <2>8, DeleteStep
  <2>9. CASE UNCHANGED vars
    <3>1. SearchInv'
      BY <2>0, <2>9 DEF vars, searching, SearchInv, PathOK, IdleOK, FoundOK, Ordered, NoCycleFound,
                        Done, Seen, Ifaces, RealCycle, Unseen, Nothing, IsRegistry, Parents, Frame
    <3>. QED
      BY <2>3, <2>9, <3>1 DEF vars
  <2>. QED
    BY <2>1, <2>2, <2>4, <2>5, <2>6, <2>7, <2>8, <2>9 DEF Next
<1>. QED
  BY <1>1, <1>2, PTL DEF Spec

-----------------------------------------------------------------------------
(* Whatever clients put, bind and delete, and in whatever order: what is   *)
(* stored has no dangling reference, no cycle, no category or data type    *)
(* that disagrees.                                                         *)
THEOREM StoredStaysSound == Spec => []StoredIsSound
<1>1. RulesInv => StoredIsSound
  BY DEF RulesInv, StoredOK, StoredIsSound
<1>. QED
  BY <1>1, RulesInductive, PTL

(* The validator refuses exactly the candidates that are not sound: for    *)
(* every set of definitions and every order in which the search for cycles *)
(* meets the interfaces and their parents.                                 *)
THEOREM ValidatorStaysExact == Spec => []ValidatorIsExact
<1>1. RulesInv => ValidatorIsExact
  BY SearchDecides DEF RulesInv, ValidatorIsExact
<1>. QED
  BY <1>1, RulesInductive, PTL

(* The types, and every cycle that the search reports is one.              *)
THEOREM ReportedCyclesAreReal == Spec => []CyclesAreReal
<1>1. ASSUME RulesInv
      PROVE  CyclesAreReal
  <2>1. /\ PathOK /\ FoundOK /\ IsRegistry(cand) /\ IsRegistry(stored) /\ menu \in Menus
        /\ phase \in {"idle", "search"}
    BY <1>1 DEF RulesInv, SearchInv, StoredOK
  <2>2. ASSUME NEW reg, IsRegistry(reg), NEW r \in Rid
        PROVE  reg[r] = Absent \/ DOMAIN reg[r] = DOMAIN Blank
    <3>1. KindOf[r] \in Kinds
      BY RulesAssumption
    <3>. QED
      BY <2>2, <3>1, DefinitionFields DEF IsRegistry
  <2>3. \A i \in 1..Len(path) : path[i].left \subseteq Rid /\ path[i].rid \in Rid
    BY <2>1, PathFacts DEF PathOK
  <2>4. {r \in Rid : color[r] = 1} = {path[i].rid : i \in 1..Len(path)}
    BY <2>1, <2>3 DEF PathOK
  <2>5. \A i, j \in 1..Len(path) : path[i].rid = path[j].rid => i = j
    BY <2>1, Zenon DEF PathOK
  <2>6. color \in [Rid -> 0..2]
    BY <2>1 DEF PathOK
  <2>7. TypeOK
    BY <2>1, <2>2, <2>3, <2>4, <2>5, <2>6 DEF TypeOK
  <2>8. \A f \in findings : f.code = "INTERFACE_EXTENDS_CYCLE" => RealCycle(f)
    BY <2>1, CheckCodes DEF FoundOK
  <2>. QED
    BY <2>7, <2>8 DEF CyclesAreReal, RealCycle
<1>. QED
  BY <1>1, RulesInductive, PTL

(* A delete is refused exactly when what is left would break a promise.    *)
THEOREM DeletesStayExact == Spec => []DeletesAreExact
<1>1. RulesInv => DeletesAreExact
  BY RemovalIsSound, ReferrersBreak DEF RulesInv, StoredOK, DeletesAreExact
<1>. QED
  BY <1>1, RulesInductive, PTL
=============================================================================
