-------------------------------- MODULE MCRules --------------------------------
(* Two families of menus: three interfaces that extend each other in every *)
(* way, and one definition of each kind in the versions that matter.       *)
EXTENDS RegistryRules

CONSTANTS i1, i2, i3, s1, o1, l1, a1, db, gone

RIDs  == {i1, i2, i3, s1, o1, l1, a1}
Names7 == [r \in RIDs |-> IF r \in {i1, i2, i3} THEN "iface" ELSE IF r = s1 THEN "shared"
                          ELSE IF r = o1 THEN "obj" ELSE IF r = l1 THEN "link" ELSE "action"]

Wide == [r \in RIDs |->
    IF r \in {i1, i2, i3}
    THEN {[Blank EXCEPT !.refs = {<<"extends", p>> : p \in parents}] :
             parents \in SUBSET {i1, i2, i3}}
    ELSE {}]

Plain == Property("plain", {"column"}, "t", Absent)
Drawn(type) == Property("drawn", {"expression"}, type, s1)

Deep == [r \in RIDs |->
    CASE r = i1 -> {Blank, [Blank EXCEPT !.named = FALSE],
                    [Blank EXCEPT !.category = "link", !.refs = {<<"requires", s1>>}],
                    [Blank EXCEPT !.shape = {"object_constraint"}],
                    [Blank EXCEPT !.category = "none"]}
      [] r = i2 -> {[Blank EXCEPT !.refs = {<<"extends", i1>>}],
                    [Blank EXCEPT !.category = "link", !.shape = {"link_requirements"}]}
      [] r = i3 -> {}
      [] r = s1 -> {Blank, [Blank EXCEPT !.type = "u"]}
      [] r = o1 -> {[Blank EXCEPT !.props = {Plain}, !.keys = {"plain"}, !.names = {"plain"}],
                    [Blank EXCEPT !.props = {Drawn("t")}, !.refs = {<<"implements", i1>>}],
                    [Blank EXCEPT !.props = {Drawn("u"), Plain}],
                    [Blank EXCEPT !.props = {Plain}, !.keys = {"drawn"}],
                    [Blank EXCEPT !.names = {"plain"}],
                    [Blank EXCEPT !.props = {Property("plain", {"column", "expression"}, "t", Absent)}]}
      [] r = l1 -> {[Blank EXCEPT !.refs = {<<"source_object", o1>>, <<"target_interface", i1>>}],
                    [Blank EXCEPT !.refs = {<<"source_interface", i2>>, <<"target_object", i1>>}],
                    [Blank EXCEPT !.props = {Drawn("t")}]}
      [] r = a1 -> {Blank, [Blank EXCEPT !.refs = {<<"from_link", l1>>, <<"from_object", o1>>}],
                    [Blank EXCEPT !.refs = {<<"from_interface", i2>>}]}]

TwoMenus == {Wide, Deep}
=============================================================================
