----------------------------- MODULE MCRegistry -----------------------------
(***************************************************************************)
(* Small instances of RegistryTxn for TLC: two definitions, of which one   *)
(* may refer to the other, and the calls each run makes.                   *)
(***************************************************************************)
EXTENDS RegistryTxn, TLC

CONSTANTS obj, link, c1, s1, s2

Plain    == [conn |-> Unbound, refs |-> {}, sort |-> s1, agrees |-> {}]
Other    == [Plain EXCEPT !.sort = s2]
(* Refers to obj, and asks it to be of sort s1.                            *)
Pointing == [Plain EXCEPT !.refs = {obj}, !.agrees = {<<obj, s1>>}]
Reading  == [Plain EXCEPT !.conn = c1]

(* An upload that names itself and reads from a connection, and a nameless *)
(* one with a definition and the one it refers to.                         *)
Bound    == [version |-> "v", defs |-> [r \in Rid |-> Reading]]
Linked   == [version |-> "", defs |-> [r \in Rid |-> IF r = link THEN Pointing ELSE Plain]]

PointingOther == {Pointing, Other}
Uploads       == {Linked}
BoundUploads  == {Bound}

Of(surface, ops) == {[op |-> o, surface |-> surface] : o \in ops}

(* Every tool and every surface, but for the imports, which differ from    *)
(* put in the candidate only and are among the rotations below.            *)
EverySurface == Of("mcp", (EditOps \ {"import"}) \cup LifecycleOps \cup ConnOps)
                \cup Of("api", LifecycleOps) \cup Of("cli", {"restore"})
(* The life cycle on REST: nothing fails half-way.                         *)
Rotations    == Of("mcp", {"import"} \cup ConnOps) \cup Of("api", LifecycleOps)

RequestSymmetry == Permutations(Request)
=============================================================================
