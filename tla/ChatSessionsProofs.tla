-------------------------- MODULE ChatSessionsProofs --------------------------
(***************************************************************************)
(* Theorems about ChatSessions, for any number of sessions, tokens and     *)
(* slots and any caps: who holds the locks of a session's row, that the    *)
(* mark of a turn goes with the turn, the cap, what requests that do not   *)
(* overlap may rely on, and that ChatSessions implements SessionLife.      *)
(***************************************************************************)
EXTENDS ChatSessions, FiniteSetTheorems, TLAPS

Calls == [pc : {"idle"} \cup Creating \cup Ending \cup Starting \cup Working,
          session : Session \cup {Nobody}, by : Token \cup {Nobody},
          saw : Nat, index : Nat, copy : SUBSET Writes]

Rows == [status : {"none", "active", "cancelling", "saved", "cancelled"},
         owner : Token \cup {Nobody}, pre : SUBSET Writes, turns : Nat]

(* TypeOK, part by part.                                                   *)
Named(c) == At(c, "idle") \/ call[c].session \in Session

LocksOK ==
    \A c \in Slot :
       /\ Named(c)
       /\ \A s \in Session :
             /\ updater[s] = c => /\ call[c].session = s
                                  /\ call[c].pc \in {"save_delete", "cancel_write", "cancel_delete"}
             /\ c \in sharers[s] => call[c].session = s /\ At(c, "touch")

StagingOK == staging \in [version : Nat, holds : SUBSET Writes]

TypesOK ==
    /\ StagingOK
    /\ writer \in Slot \cup {Nobody}
    /\ row \in [Session -> Rows]
    /\ running \in [Session -> Slot \cup {Nobody}]
    /\ call \in [Slot -> Calls]
    /\ overlapped \subseteq Session \cup Token
    /\ updater \in [Session -> Slot \cup {Nobody}]
    /\ sharers \in [Session -> SUBSET Slot]

LEMMA TypeOKParts == TypeOK <=> TypesOK /\ LocksOK
BY DEF TypeOK, TypesOK, LocksOK, Named, StagingOK, Calls, Rows

-----------------------------------------------------------------------------
(* Helpers of the model.                                                   *)

LEMMA IdleIsCall == Idle \in Calls /\ Idle.pc = "idle" /\ Idle.session = Nobody
BY DEF Idle, Calls

LEMMA NoRowIsRow == NoRow \in Rows
BY DEF NoRow, Rows

(* A call whose place, session or anything else typed is replaced.         *)
LEMMA CallAt ==
  ASSUME NEW r \in Calls, NEW pc \in {"idle"} \cup Creating \cup Ending \cup Starting \cup Working
  PROVE  [r EXCEPT !.pc = pc] \in Calls
BY DEF Calls

LEMMA AddIsStaging ==
  ASSUME StagingOK, NEW author \in Session \cup {Editor}, Add(author)
  PROVE  StagingOK'
<1>1. /\ staging.version + 1 \in Nat
      /\ staging.holds \cup {<<author, staging.version + 1>>} \in SUBSET Writes
  BY DEF StagingOK, Writes
<1>. QED BY <1>1 DEF Add, StagingOK

-----------------------------------------------------------------------------
(* A step at which one slot moves from a place without locks to a place    *)
(* without locks, and nobody's locks change.                               *)

Holding == {"save_delete", "cancel_write", "cancel_delete", "touch"}

Moves(c) ==
    /\ call[c].pc \notin Holding
    /\ Named(c)'
    /\ \A d \in Slot \ {c} : call'[d] = call[d]
    /\ UNCHANGED <<updater, sharers>>

LEMMA MovesKeepLocks ==
  ASSUME TypesOK, LocksOK, NEW c \in Slot, Moves(c)
  PROVE  LocksOK'
BY DEF TypesOK, LocksOK, Named, Moves, Holding, At

(* A step at which a slot drops its locks.                                 *)
Frees(c) ==
    /\ Release(c)
    /\ Named(c)'
    /\ \A d \in Slot \ {c} : call'[d] = call[d]

LEMMA FreesKeepLocks ==
  ASSUME TypesOK, LocksOK, NEW c \in Slot, Frees(c)
  PROVE  LocksOK' /\ updater' \in [Session -> Slot \cup {Nobody}]
         /\ sharers' \in [Session -> SUBSET Slot] /\ writer' \in Slot \cup {Nobody}
<1>1. /\ updater' \in [Session -> Slot \cup {Nobody}]
      /\ sharers' \in [Session -> SUBSET Slot] /\ writer' \in Slot \cup {Nobody}
  BY DEF TypesOK, Frees, Release
<1>2. ASSUME NEW d \in Slot, NEW s \in Session
      PROVE  /\ updater'[s] = d => d # c /\ updater[s] = d
             /\ d \in sharers'[s] => d # c /\ d \in sharers[s]
  BY ChatAssumption DEF TypesOK, Frees, Release
<1>. QED BY <1>1, <1>2 DEF LocksOK, Named, Frees, At

-----------------------------------------------------------------------------
(* Requests come in.                                                       *)

LEMMA ArriveIsCall ==
  ASSUME TypesOK, NEW c \in Slot, NEW s \in Session, NEW t \in Token,
         NEW pc \in Creating \cup Ending \cup Starting, Arrive(c, pc, s, t)
  PROVE  /\ call' \in [Slot -> Calls]
         /\ call'[c].pc = pc /\ call'[c].session = s
         /\ \A d \in Slot \ {c} : call'[d] = call[d]
<1>1. [Idle EXCEPT !.pc = pc, !.session = s, !.by = t] \in Calls
  BY DEF Idle, Calls
<1>. QED BY <1>1 DEF Arrive, TypesOK, Idle

LEMMA ArrivalKeeps ==
  ASSUME TypesOK, LocksOK, NEW c \in Slot, NEW s \in Session, NEW t \in Token,
         NEW pc \in {"save", "cancel", "turn"},
         CreateCount(c, s, t) \/ Request(c, pc, s, t)
  PROVE  TypesOK' /\ LocksOK'
<1>1. CASE CreateCount(c, s, t)
  <2>1. "load" \in Creating \cup Ending \cup Starting
    BY DEF Creating
  <2>2. call' \in [Slot -> Calls] /\ call'[c].session = s
        /\ \A d \in Slot \ {c} : call'[d] = call[d]
    BY <1>1, <2>1, ArriveIsCall DEF CreateCount
  <2>3. overlapped' \subseteq Session \cup Token
    BY <1>1 DEF CreateCount, TypesOK
  <2>4. TypesOK'
    BY <1>1, <2>2, <2>3 DEF CreateCount, TypesOK, StagingOK, locks
  <2>5. Moves(c)
    BY <1>1, <2>2 DEF CreateCount, Moves, Named, Holding, At, locks
  <2>. QED BY <2>4, <2>5, MovesKeepLocks
<1>2. CASE Request(c, pc, s, t)
  <2>1. pc \in Creating \cup Ending \cup Starting
    BY DEF Ending, Starting
  <2>2. call' \in [Slot -> Calls] /\ call'[c].session = s
        /\ \A d \in Slot \ {c} : call'[d] = call[d]
    BY <1>2, <2>1, ArriveIsCall DEF Request
  <2>3. overlapped' \subseteq Session \cup Token
    BY <1>2 DEF Request, TypesOK
  <2>4. TypesOK'
    BY <1>2, <2>2, <2>3 DEF Request, TypesOK, StagingOK, locks
  <2>5. Moves(c)
    BY <1>2, <2>2 DEF Request, Moves, Named, Holding, At, locks
  <2>. QED BY <2>4, <2>5, MovesKeepLocks
<1>. QED BY <1>1, <1>2

-----------------------------------------------------------------------------
(* The statements of the handlers.                                         *)

Pcs == {"idle"} \cup Creating \cup Ending \cup Starting \cup Working

LEMMA CallStaysCall ==
  ASSUME TypesOK, NEW c \in Slot
  PROVE  /\ call[c] \in Calls
         /\ Answer(c) => /\ call' \in [Slot -> Calls] /\ call'[c] = Idle /\ Named(c)'
                         /\ \A d \in Slot \ {c} : call'[d] = call[d]
         /\ \A pc \in Pcs :
               Goto(c, pc) => /\ call' \in [Slot -> Calls]
                              /\ call'[c].pc = pc /\ call'[c].session = call[c].session
                              /\ \A d \in Slot \ {c} : call'[d] = call[d]
<1>1. call \in [Slot -> Calls] /\ call[c] \in Calls
  BY DEF TypesOK
<1>2. Answer(c) => /\ call' \in [Slot -> Calls] /\ call'[c] = Idle /\ Named(c)'
                   /\ \A d \in Slot \ {c} : call'[d] = call[d]
  BY <1>1, IdleIsCall DEF Answer, Named, At
<1>3. ASSUME NEW pc \in Pcs, Goto(c, pc)
      PROVE  /\ call' \in [Slot -> Calls]
             /\ call'[c].pc = pc /\ call'[c].session = call[c].session
             /\ \A d \in Slot \ {c} : call'[d] = call[d]
  <2>1. [call[c] EXCEPT !.pc = pc] \in Calls
    BY <1>1, CallAt DEF Pcs
  <2>2. [call[c] EXCEPT !.pc = pc].session = call[c].session
        /\ [call[c] EXCEPT !.pc = pc].pc = pc
    BY <1>1 DEF Calls
  <2>. QED BY <1>1, <1>3, <2>1, <2>2 DEF Goto
<1>. QED BY <1>1, <1>2, <1>3

LEMMA CreationKeeps ==
  ASSUME TypesOK, LocksOK, NEW c \in Slot, CreateLoad(c) \/ CreateInsert(c)
  PROVE  TypesOK' /\ LocksOK'
<1>1. call[c] \in Calls /\ call \in [Slot -> Calls]
  BY DEF TypesOK
<1>2. CASE CreateLoad(c)
  <2>1. /\ [call[c] EXCEPT !.pc = "insert", !.copy = staging.holds] \in Calls
        /\ [call[c] EXCEPT !.pc = "insert", !.copy = staging.holds].session = call[c].session
    BY <1>1 DEF Calls, Creating, TypesOK, StagingOK
  <2>2. /\ call' \in [Slot -> Calls] /\ \A d \in Slot \ {c} : call'[d] = call[d]
        /\ call'[c].session = call[c].session
    BY <1>1, <1>2, <2>1 DEF CreateLoad
  <2>3. TypesOK'
    BY <1>2, <2>2 DEF CreateLoad, TypesOK, StagingOK, locks
  <2>4. Moves(c)
    BY <1>2, <2>2 DEF CreateLoad, Moves, LocksOK, Named, Holding, At, locks
  <2>. QED BY <2>3, <2>4, MovesKeepLocks
<1>3. CASE CreateInsert(c)
  <2>1. [status |-> "active", owner |-> call[c].by, pre |-> call[c].copy, turns |-> 0] \in Rows
    BY <1>1 DEF Calls, Rows
  <2>2. row' \in [Session -> Rows]
    BY <1>3, <2>1 DEF CreateInsert, TypesOK
  <2>3. call' \in [Slot -> Calls] /\ Named(c)'
        /\ \A d \in Slot \ {c} : call'[d] = call[d]
    BY <1>3, CallStaysCall DEF CreateInsert
  <2>4. TypesOK'
    BY <1>3, <2>2, <2>3 DEF CreateInsert, TypesOK, StagingOK, locks
  <2>5. Moves(c)
    BY <1>3, <2>3 DEF CreateInsert, Moves, Holding, At, locks
  <2>. QED BY <2>4, <2>5, MovesKeepLocks
<1>. QED BY <1>2, <1>3

(* save_session and cancel_session claim their row before anything else.   *)
LEMMA ClaimKeeps ==
  ASSUME TypesOK, LocksOK, NEW c \in Slot,
         Claim(c, "save", "save_delete") \/ Claim(c, "cancel", "cancel_write")
  PROVE  TypesOK' /\ LocksOK'
<1>1. PICK from \in {"save", "cancel"}, next \in {"save_delete", "cancel_write"} :
         Claim(c, from, next)
  OBVIOUS
<1>2. call[c] \in Calls /\ call \in [Slot -> Calls]
  BY DEF TypesOK
<1>3. CASE Answer(c) /\ UNCHANGED updater
  <2>1. call' \in [Slot -> Calls] /\ Named(c)' /\ \A d \in Slot \ {c} : call'[d] = call[d]
    BY <1>3, CallStaysCall
  <2>2. TypesOK'
    BY <1>1, <1>3, <2>1 DEF Claim, TypesOK, StagingOK
  <2>3. Moves(c)
    BY <1>1, <1>3, <2>1 DEF Claim, Moves, Holding, At
  <2>. QED BY <2>2, <2>3, MovesKeepLocks
<1>4. CASE /\ updater' = [updater EXCEPT ![call[c].session] = c]
           /\ call' = [call EXCEPT ![c] = [@ EXCEPT !.pc = next, !.saw = staging.version]]
  <2>1. /\ [call[c] EXCEPT !.pc = next, !.saw = staging.version] \in Calls
        /\ [call[c] EXCEPT !.pc = next, !.saw = staging.version].session = call[c].session
        /\ [call[c] EXCEPT !.pc = next, !.saw = staging.version].pc = next
    BY <1>2 DEF Calls, Ending, TypesOK, StagingOK
  <2>2. /\ call' \in [Slot -> Calls] /\ \A d \in Slot \ {c} : call'[d] = call[d]
        /\ call'[c].session = call[c].session /\ call'[c].pc = next
    BY <1>2, <1>4, <2>1
  <2>3. TypesOK'
    BY <1>1, <1>4, <2>2 DEF Claim, TypesOK, StagingOK
  <2>4. ASSUME NEW d \in Slot, NEW s \in Session
        PROVE  /\ updater'[s] = d => \/ d = c /\ s = call[c].session
                                     \/ d # c /\ updater[s] = d
               /\ d \in sharers'[s] => d # c /\ d \in sharers[s]
    BY <1>1, <1>4 DEF Claim, TypesOK, LocksOK, At
  <2>5. LocksOK'
    BY <1>1, <2>2, <2>4 DEF LocksOK, Named, At, Claim
  <2>. QED BY <2>3, <2>5
<1>. QED BY <1>1, <1>3, <1>4 DEF Claim

(* The statement that ends a session.                                      *)
LEMMA DeleteKeeps ==
  ASSUME TypesOK, LocksOK, NEW c \in Slot, NEW how \in {"saved", "cancelled"},
         Delete(c, how), StagingOK', UNCHANGED <<running, overlapped>>
  PROVE  TypesOK' /\ LocksOK'
<1>1. call' \in [Slot -> Calls] /\ Named(c)' /\ \A d \in Slot \ {c} : call'[d] = call[d]
  BY CallStaysCall DEF Delete
<1>2. Frees(c)
  BY <1>1 DEF Delete, Frees
<1>3. [NoRow EXCEPT !.status = how] \in Rows
  BY DEF NoRow, Rows
<1>4. row' \in [Session -> Rows]
  BY <1>3 DEF Delete, TypesOK
<1>. QED BY <1>1, <1>2, <1>4, FreesKeepLocks DEF TypesOK

LEMMA EndingKeeps ==
  ASSUME TypesOK, LocksOK, NEW c \in Slot,
         SaveDelete(c) \/ CancelWrite(c) \/ CancelDelete(c)
  PROVE  TypesOK' /\ LocksOK'
<1>1. CASE SaveDelete(c)
  <2>1. StagingOK'
    BY <1>1 DEF SaveDelete, TypesOK, StagingOK
  <2>. QED BY <1>1, <2>1, DeleteKeeps DEF SaveDelete
<1>2. CASE CancelDelete(c)
  <2>1. call[c].session \in Session
    BY <1>2 DEF CancelDelete, LocksOK, Named, At
  <2>2. row[call[c].session].pre \in SUBSET Writes
    BY <2>1 DEF TypesOK, Rows
  <2>3. StagingOK'
    BY <1>2, <2>2 DEF CancelDelete, TypesOK, StagingOK
  <2>. QED BY <1>2, <2>3, DeleteKeeps DEF CancelDelete
<1>3. CASE CancelWrite(c)
  <2>1. CASE /\ writer' = c
             /\ Goto(c, "cancel_delete")
             /\ UNCHANGED <<row, updater, sharers>>
    <3>1. "cancel_delete" \in Pcs
      BY DEF Pcs, Ending
    <3>2. /\ call' \in [Slot -> Calls] /\ \A d \in Slot \ {c} : call'[d] = call[d]
          /\ call'[c].session = call[c].session /\ call'[c].pc = "cancel_delete"
      BY <2>1, <3>1, CallStaysCall
    <3>3. TypesOK'
      BY <1>3, <2>1, <3>2 DEF CancelWrite, TypesOK, StagingOK
    <3>4. LocksOK'
      BY <1>3, <2>1, <3>2 DEF CancelWrite, LocksOK, Named, At
    <3>. QED BY <3>3, <3>4
  <2>2. CASE /\ row' = [row EXCEPT ![call[c].session].status = "cancelling"]
             /\ Release(c)
             /\ Answer(c)
    <3>1. call' \in [Slot -> Calls] /\ Named(c)' /\ \A d \in Slot \ {c} : call'[d] = call[d]
      BY <2>2, CallStaysCall
    <3>2. Frees(c)
      BY <2>2, <3>1 DEF Frees
    <3>3. row' \in [Session -> Rows]
      <4>1. \A r \in Rows : [r EXCEPT !.status = "cancelling"] \in Rows
        BY DEF Rows
      <4>. QED BY <2>2, <4>1 DEF TypesOK
    <3>. QED BY <1>3, <3>1, <3>2, <3>3, FreesKeepLocks DEF CancelWrite, TypesOK, StagingOK
  <2>. QED BY <1>3, <2>1, <2>2 DEF CancelWrite
<1>. QED BY <1>1, <1>2, <1>3

(* start_turn, statement by statement.                                     *)
LEMMA StartingKeeps ==
  ASSUME TypesOK, LocksOK, NEW c \in Slot,
         TurnRead(c) \/ TurnMessage(c) \/ TurnCommit(c) \/ TurnRegister(c)
  PROVE  TypesOK' /\ LocksOK'
<1>0. call[c] \in Calls /\ call \in [Slot -> Calls]
  BY DEF TypesOK
<1>1. CASE TurnRead(c)
  <2>1. CASE Answer(c)
    <3>1. call' \in [Slot -> Calls] /\ Named(c)' /\ \A d \in Slot \ {c} : call'[d] = call[d]
      BY <2>1, CallStaysCall
    <3>2. TypesOK'
      BY <1>1, <3>1 DEF TurnRead, TypesOK, StagingOK, locks
    <3>3. Moves(c)
      BY <1>1, <3>1 DEF TurnRead, Moves, Holding, At, locks
    <3>. QED BY <3>2, <3>3, MovesKeepLocks
  <2>2. CASE call' = [call EXCEPT ![c] = [@ EXCEPT !.pc = "message",
                                                   !.index = row[call[c].session].turns]]
    <3>1. call[c].session \in Session
      BY <1>1 DEF TurnRead, LocksOK, Named, At
    <3>2. row[call[c].session].turns \in Nat
      BY <3>1 DEF TypesOK, Rows
    <3>3. /\ [call[c] EXCEPT !.pc = "message", !.index = row[call[c].session].turns] \in Calls
          /\ [call[c] EXCEPT !.pc = "message", !.index = row[call[c].session].turns].session
                = call[c].session
      BY <1>0, <3>2 DEF Calls, Starting
    <3>4. /\ call' \in [Slot -> Calls] /\ \A d \in Slot \ {c} : call'[d] = call[d]
          /\ call'[c].session = call[c].session
      BY <1>0, <2>2, <3>3
    <3>5. TypesOK'
      BY <1>1, <3>4 DEF TurnRead, TypesOK, StagingOK, locks
    <3>6. Moves(c)
      BY <1>1, <3>1, <3>4 DEF TurnRead, Moves, Named, Holding, At, locks
    <3>. QED BY <3>5, <3>6, MovesKeepLocks
  <2>. QED BY <1>1, <2>1, <2>2 DEF TurnRead
<1>2. CASE TurnMessage(c)
  <2>1. CASE Answer(c) /\ UNCHANGED sharers
    <3>1. call' \in [Slot -> Calls] /\ Named(c)' /\ \A d \in Slot \ {c} : call'[d] = call[d]
      BY <2>1, CallStaysCall
    <3>2. TypesOK'
      BY <1>2, <2>1, <3>1 DEF TurnMessage, TypesOK, StagingOK
    <3>3. Moves(c)
      BY <1>2, <2>1, <3>1 DEF TurnMessage, Moves, Holding, At
    <3>. QED BY <3>2, <3>3, MovesKeepLocks
  <2>2. CASE /\ sharers' = [sharers EXCEPT ![call[c].session] = @ \cup {c}]
             /\ Goto(c, "touch")
    <3>1. "touch" \in Pcs
      BY DEF Pcs, Starting
    <3>2. /\ call' \in [Slot -> Calls] /\ \A d \in Slot \ {c} : call'[d] = call[d]
          /\ call'[c].session = call[c].session /\ call'[c].pc = "touch"
      BY <2>2, <3>1, CallStaysCall
    <3>3. TypesOK'
      BY <1>2, <2>2, <3>2 DEF TurnMessage, TypesOK, StagingOK
    <3>4. ASSUME NEW d \in Slot, NEW s \in Session
          PROVE  /\ updater'[s] = d => d # c /\ updater[s] = d
                 /\ d \in sharers'[s] => \/ d = c /\ s = call[c].session
                                         \/ d # c /\ d \in sharers[s]
      BY <1>2, <2>2 DEF TurnMessage, TypesOK, LocksOK, At
    <3>5. LocksOK'
      BY <1>2, <3>2, <3>4 DEF TurnMessage, LocksOK, Named, At
    <3>. QED BY <3>3, <3>5
  <2>. QED BY <1>2, <2>1, <2>2 DEF TurnMessage
<1>3. CASE TurnCommit(c)
  <2>1. "register" \in Pcs
    BY DEF Pcs, Starting
  <2>2. /\ call' \in [Slot -> Calls] /\ \A d \in Slot \ {c} : call'[d] = call[d]
        /\ call'[c].session = call[c].session
    BY <1>3, <2>1, CallStaysCall DEF TurnCommit
  <2>3. row' \in [Session -> Rows]
    <3>1. \A r \in Rows : /\ r.turns \in Nat
                          /\ \A n \in Nat : [r EXCEPT !.turns = n] \in Rows
      BY DEF Rows
    <3>2. call[c].session \in Session
      BY <1>3 DEF TurnCommit, LocksOK, Named, At
    <3>3. /\ row \in [Session -> Rows]
          /\ row' = [row EXCEPT ![call[c].session].turns =
                          IF @ > call[c].index THEN @ ELSE @ + 1]
      BY <1>3 DEF TurnCommit, TypesOK
    <3>4. PICK r : r = row[call[c].session]
      OBVIOUS
    <3>5. PICK n : n = IF r.turns > call[c].index THEN r.turns ELSE r.turns + 1
      OBVIOUS
    <3>6. r \in Rows /\ n \in Nat
      BY <3>1, <3>2, <3>3, <3>4, <3>5
    <3>7. [r EXCEPT !.turns = n] \in Rows
      BY <3>1, <3>6
    <3>8. row' = [row EXCEPT ![call[c].session] = [r EXCEPT !.turns = n]]
      BY <3>3, <3>4, <3>5
    <3>. QED BY <3>2, <3>3, <3>7, <3>8
  <2>4. Frees(c)
    BY <1>3, <2>2 DEF TurnCommit, Frees, LocksOK, Named, At
  <2>. QED BY <1>3, <2>2, <2>3, <2>4, FreesKeepLocks DEF TurnCommit, TypesOK, StagingOK
<1>4. CASE TurnRegister(c)
  <2>1. "job" \in Pcs
    BY DEF Pcs, Working
  <2>2. /\ call' \in [Slot -> Calls] /\ \A d \in Slot \ {c} : call'[d] = call[d]
        /\ call'[c].session = call[c].session
    BY <1>4, <2>1, CallStaysCall DEF TurnRegister
  <2>3. TypesOK'
    BY <1>4, <2>2 DEF TurnRegister, TypesOK, StagingOK, locks
  <2>4. Moves(c)
    BY <1>4, <2>2 DEF TurnRegister, Moves, LocksOK, Named, Holding, At, locks
  <2>. QED BY <2>3, <2>4, MovesKeepLocks
<1>. QED BY <1>1, <1>2, <1>3, <1>4

(* The job of a turn, and the end of its task.                             *)
LEMMA WorkingKeeps ==
  ASSUME TypesOK, LocksOK, NEW c \in Slot,
         JobRead(c) \/ JobImport(c) \/ JobFails(c) \/ TurnEnd(c)
  PROVE  TypesOK' /\ LocksOK'
<1>0. call[c] \in Calls /\ call \in [Slot -> Calls]
  BY DEF TypesOK
<1>1. CASE JobRead(c)
  <2>1. /\ [call[c] EXCEPT !.pc = "import", !.saw = staging.version] \in Calls
        /\ [call[c] EXCEPT !.pc = "import", !.saw = staging.version].session = call[c].session
    BY <1>0 DEF Calls, Working, TypesOK, StagingOK
  <2>2. /\ call' \in [Slot -> Calls] /\ \A d \in Slot \ {c} : call'[d] = call[d]
        /\ call'[c].session = call[c].session
    BY <1>0, <1>1, <2>1 DEF JobRead
  <2>3. TypesOK'
    BY <1>1, <2>2 DEF JobRead, TypesOK, StagingOK, locks
  <2>4. Moves(c)
    BY <1>1, <2>2 DEF JobRead, Moves, LocksOK, Named, Holding, At, locks
  <2>. QED BY <2>3, <2>4, MovesKeepLocks
<1>2. CASE JobImport(c) \/ JobFails(c)
  <2>1. "closing" \in Pcs
    BY DEF Pcs, Working
  <2>2. /\ call' \in [Slot -> Calls] /\ \A d \in Slot \ {c} : call'[d] = call[d]
        /\ call'[c].session = call[c].session
    BY <1>2, <2>1, CallStaysCall DEF JobImport, JobFails
  <2>3. call[c].session \in Session /\ Named(c)' /\ call[c].pc \notin Holding
    BY <1>2, <2>2 DEF JobImport, JobFails, LocksOK, Named, At, Holding
  <2>4. StagingOK'
    <3>1. CASE Add(call[c].session)
      BY <2>3, <3>1, AddIsStaging DEF TypesOK
    <3>2. CASE UNCHANGED staging
      BY <3>2 DEF TypesOK, StagingOK
    <3>. QED BY <1>2, <3>1, <3>2 DEF JobImport, JobFails
  <2>5. TypesOK'
    BY <1>2, <2>2, <2>4 DEF JobImport, JobFails, TypesOK, locks
  <2>6. Moves(c)
    BY <1>2, <2>2, <2>3 DEF JobImport, JobFails, Moves, locks
  <2>. QED BY <2>5, <2>6, MovesKeepLocks
<1>3. CASE TurnEnd(c)
  <2>1. call' \in [Slot -> Calls] /\ Named(c)' /\ \A d \in Slot \ {c} : call'[d] = call[d]
    BY <1>3, CallStaysCall DEF TurnEnd
  <2>2. TypesOK'
    BY <1>3, <2>1 DEF TurnEnd, TypesOK, StagingOK, locks
  <2>3. Moves(c)
    BY <1>3, <2>1 DEF TurnEnd, Moves, Holding, At, locks
  <2>. QED BY <2>2, <2>3, MovesKeepLocks
<1>. QED BY <1>1, <1>2, <1>3

(* What the database, the other writers and the restarts do.               *)
LEMMA OthersKeep ==
  ASSUME TypesOK, LocksOK,
         \/ \E c \in Slot : DeadlockVictim(c)
         \/ Edit \/ Restart
         \/ \E s \in Session : Sweep(s)
  PROVE  TypesOK' /\ LocksOK'
<1>1. ASSUME NEW c \in Slot, DeadlockVictim(c) PROVE TypesOK' /\ LocksOK'
  <2>1. call' \in [Slot -> Calls] /\ Named(c)' /\ \A d \in Slot \ {c} : call'[d] = call[d]
    BY <1>1, CallStaysCall DEF DeadlockVictim
  <2>2. Frees(c)
    BY <1>1, <2>1 DEF DeadlockVictim, Frees
  <2>. QED BY <1>1, <2>1, <2>2, FreesKeepLocks DEF DeadlockVictim, TypesOK, StagingOK
<1>2. CASE Edit
  <2>1. StagingOK'
    BY <1>2, AddIsStaging DEF Edit, TypesOK
  <2>2. TypesOK'
    BY <1>2, <2>1 DEF Edit, TypesOK, locks
  <2>. QED BY <1>2, <2>2 DEF Edit, LocksOK, Named, At, locks
<1>3. CASE Restart
  <2>1. call' \in [Slot -> Calls]
    BY <1>3, IdleIsCall DEF Restart
  <2>2. TypesOK'
    BY <1>3, <2>1 DEF Restart, TypesOK, StagingOK
  <2>3. LocksOK'
    BY <1>3, IdleIsCall, ChatAssumption DEF Restart, LocksOK, Named, At
  <2>. QED BY <2>2, <2>3
<1>4. ASSUME NEW s \in Session, Sweep(s) PROVE TypesOK' /\ LocksOK'
  <2>1. [NoRow EXCEPT !.status = "cancelled"] \in Rows
    BY DEF NoRow, Rows
  <2>2. row' \in [Session -> Rows]
    BY <1>4, <2>1 DEF Sweep, TypesOK
  <2>3. staging.version + 1 \in Nat /\ row[s].pre \in SUBSET Writes
    BY DEF TypesOK, StagingOK, Rows
  <2>4. StagingOK'
    BY <1>4, <2>3 DEF Sweep, StagingOK
  <2>5. TypesOK'
    BY <1>4, <2>2, <2>4 DEF Sweep, TypesOK, locks
  <2>. QED BY <1>4, <2>5 DEF Sweep, LocksOK, Named, At, locks
<1>. QED BY <1>1, <1>2, <1>3, <1>4

-----------------------------------------------------------------------------
LEMMA TypesInductive ==
  /\ Init => TypesOK /\ LocksOK
  /\ TypesOK /\ LocksOK /\ [Next]_vars => (TypesOK /\ LocksOK)'
<1>1. Init => TypesOK /\ LocksOK
  BY IdleIsCall, NoRowIsRow, ChatAssumption
  DEF Init, TypesOK, StagingOK, LocksOK, Named, At
<1>2. TypesOK /\ LocksOK /\ [Next]_vars => (TypesOK /\ LocksOK)'
  <2> SUFFICES ASSUME TypesOK, LocksOK, [Next]_vars PROVE TypesOK' /\ LocksOK'
    OBVIOUS
  <2>1. CASE UNCHANGED vars
    BY <2>1 DEF vars, locks, TypesOK, StagingOK, LocksOK, Named, At
  <2>2. ASSUME NEW c \in Slot, Handler(c) PROVE TypesOK' /\ LocksOK'
    BY <2>2, CreationKeeps, ClaimKeeps, EndingKeeps, StartingKeeps, WorkingKeeps, OthersKeep
    DEF Handler
  <2>. QED BY <2>1, <2>2, ArrivalKeeps, OthersKeep DEF Next
<1>. QED BY <1>1, <1>2

(* Whatever requests, turns, deadlocks, edits and restarts interleave: the *)
(* state is well typed, a request is for a session, and the locks of a     *)
(* session's row belong to handlers that are between their first and their *)
(* last statement on it.                                                   *)
THEOREM TypeCorrect == Spec => []TypeOK
<1>1. TypesOK /\ LocksOK => TypeOK
  BY TypeOKParts
<1>. QED BY <1>1, TypesInductive, PTL DEF Spec

-----------------------------------------------------------------------------
(* What a step does to the calls.                                          *)

(* A handler changes its own call only.                                    *)
LEMMA Alone ==
  ASSUME TypesOK, NEW c \in Slot, Handler(c)
  PROVE  \A d \in Slot \ {c} : call'[d] = call[d]
<1>1. call \in [Slot -> Calls]
  BY DEF TypesOK
<1>2. CASE CreateLoad(c) \/ CreateInsert(c)
  BY <1>1, <1>2 DEF CreateLoad, CreateInsert, Answer
<1>3. CASE Claim(c, "save", "save_delete") \/ Claim(c, "cancel", "cancel_write")
  BY <1>1, <1>3 DEF Claim, Answer
<1>4. CASE SaveDelete(c) \/ CancelWrite(c) \/ CancelDelete(c)
  BY <1>1, <1>4 DEF SaveDelete, CancelWrite, CancelDelete, Delete, Goto, Answer
<1>5. CASE TurnRead(c) \/ TurnMessage(c) \/ TurnCommit(c) \/ TurnRegister(c)
  BY <1>1, <1>5 DEF TurnRead, TurnMessage, TurnCommit, TurnRegister, Goto, Answer
<1>6. CASE JobRead(c) \/ JobImport(c) \/ JobFails(c) \/ TurnEnd(c) \/ DeadlockVictim(c)
  BY <1>1, <1>6 DEF JobRead, JobImport, JobFails, TurnEnd, DeadlockVictim, Goto, Answer
<1>. QED BY <1>2, <1>3, <1>4, <1>5, <1>6 DEF Handler

(* The handlers that are no turn yet, or never become one.                 *)
NoTurn(c) ==
    \/ CreateLoad(c) \/ CreateInsert(c)
    \/ Claim(c, "save", "save_delete") \/ Claim(c, "cancel", "cancel_write")
    \/ SaveDelete(c) \/ CancelWrite(c) \/ CancelDelete(c)
    \/ TurnRead(c) \/ TurnMessage(c) \/ TurnCommit(c)
    \/ DeadlockVictim(c)

LEMMA NoTurnIsQuiet ==
  ASSUME NEW c \in Slot, NoTurn(c)
  PROVE  call[c].pc \notin Working /\ UNCHANGED running
<1>1. CASE CreateLoad(c) \/ CreateInsert(c)
  BY <1>1 DEF CreateLoad, CreateInsert, At, Working
<1>2. CASE Claim(c, "save", "save_delete") \/ Claim(c, "cancel", "cancel_write")
  BY <1>2 DEF Claim, At, Working
<1>3. CASE SaveDelete(c) \/ CancelWrite(c) \/ CancelDelete(c)
  BY <1>3 DEF SaveDelete, CancelWrite, CancelDelete, At, Working
<1>4. CASE TurnRead(c) \/ TurnMessage(c) \/ TurnCommit(c)
  BY <1>4 DEF TurnRead, TurnMessage, TurnCommit, At, Working
<1>5. CASE DeadlockVictim(c)
  BY <1>5 DEF DeadlockVictim, Deadlocked, At, Working
<1>. QED BY <1>1, <1>2, <1>3, <1>4, <1>5 DEF NoTurn

(* The steps of a turn's task keep its session.                            *)
LEMMA TurnGoesOn ==
  ASSUME TypesOK, NEW c \in Slot, JobRead(c) \/ JobImport(c) \/ JobFails(c)
  PROVE  /\ call[c].pc \in Working /\ call'[c].pc \in Working
         /\ call'[c].session = call[c].session /\ call'[c].index = call[c].index
         /\ UNCHANGED <<row, running, overlapped>>
<1>1. call \in [Slot -> Calls] /\ call[c] \in Calls
  BY DEF TypesOK
<1>2. CASE JobRead(c)
  BY <1>1, <1>2 DEF JobRead, At, Working, Calls
<1>3. CASE JobImport(c) \/ JobFails(c)
  BY <1>1, <1>3 DEF JobImport, JobFails, Goto, At, Working, Calls
<1>. QED BY <1>2, <1>3

-----------------------------------------------------------------------------
(* The mark of a turn.                                                     *)

LEMMA MarksInductive ==
  /\ Init => MarkedTurnsRun
  /\ TypesOK /\ MarkedTurnsRun /\ [Next]_vars => MarkedTurnsRun'
<1>1. Init => MarkedTurnsRun
  BY DEF Init, MarkedTurnsRun
<1>2. ASSUME TypesOK, MarkedTurnsRun, [Next]_vars PROVE MarkedTurnsRun'
  <2>0. /\ running \in [Session -> Slot \cup {Nobody}] /\ call \in [Slot -> Calls]
        /\ \A s \in Session : running[s] # Nobody =>
              /\ running[s] \in Slot
              /\ call[running[s]].pc \in Working /\ call[running[s]].session = s
    BY <1>2 DEF TypesOK, MarkedTurnsRun, TurnsOf
  <2> SUFFICES ASSUME NEW s \in Session, running'[s] # Nobody
               PROVE  /\ running'[s] \in Slot
                      /\ call'[running'[s]].pc \in Working
                      /\ call'[running'[s]].session = s
    BY DEF MarkedTurnsRun, TurnsOf
  <2>1. CASE UNCHANGED <<running, call>>
    BY <2>0, <2>1
  <2>2. ASSUME NEW c \in Slot, NEW x \in Session, NEW t \in Token,
               NEW pc \in {"save", "cancel", "turn"},
               CreateCount(c, x, t) \/ Request(c, pc, x, t)
        PROVE  /\ call[c].pc \notin Working /\ UNCHANGED running
               /\ \A d \in Slot \ {c} : call'[d] = call[d]
    BY <2>0, <2>2 DEF CreateCount, Request, Arrive, At, Working
  <2>3. ASSUME NEW c \in Slot, call[c].pc \notin Working, UNCHANGED running,
               \A d \in Slot \ {c} : call'[d] = call[d]
        PROVE  /\ running'[s] \in Slot
               /\ call'[running'[s]].pc \in Working /\ call'[running'[s]].session = s
    BY <2>0, <2>3
  <2>4. ASSUME NEW c \in Slot, Handler(c)
        PROVE  /\ running'[s] \in Slot
               /\ call'[running'[s]].pc \in Working /\ call'[running'[s]].session = s
    <3>0. \A d \in Slot \ {c} : call'[d] = call[d]
      BY <1>2, <2>4, Alone
    <3>1. CASE NoTurn(c)
      BY <3>0, <3>1, <2>3, NoTurnIsQuiet
    <3>2. CASE TurnRegister(c)
      <4>1. /\ call'[c].pc \in Working /\ call'[c].session = call[c].session
            /\ call[c].pc \notin Working
        BY <2>0, <3>2 DEF TurnRegister, Goto, At, Working, Calls
      <4>. QED BY <2>0, <3>0, <3>2, <4>1 DEF TurnRegister
    <3>3. CASE JobRead(c) \/ JobImport(c) \/ JobFails(c)
      BY <1>2, <2>0, <3>0, <3>3, TurnGoesOn
    <3>4. CASE TurnEnd(c)
      BY <2>0, <3>0, <3>4 DEF TurnEnd
    <3>. QED BY <2>4, <3>1, <3>2, <3>3, <3>4 DEF Handler, NoTurn
  <2>5. CASE Restart
    BY <2>5 DEF Restart
  <2>6. CASE Edit \/ \E x \in Session : Sweep(x)
    BY <2>1, <2>6 DEF Edit, Sweep
  <2>. QED BY <1>2, <2>1, <2>2, <2>3, <2>4, <2>5, <2>6 DEF Next, vars
<1>. QED BY <1>1, <1>2

(* A session is never blocked by the mark of a turn that is gone.          *)
THEOREM MarksAreTurns == Spec => []MarkedTurnsRun
BY TypesInductive, MarksInductive, PTL DEF Spec

-----------------------------------------------------------------------------
(* The cap. While a token's creations do not overlap, at most one of them  *)
(* is between its count and its INSERT, and the count still stands.        *)

Creates(d, t) == call[d].pc \in Creating /\ call[d].by = t

CountStands ==
    \A t \in Token \ overlapped :
       /\ Cardinality(ActiveOf(t)) <= MaxSessions
       /\ \A c, d \in Slot : Creates(c, t) /\ Creates(d, t) => c = d
       /\ \A c \in Slot : Creates(c, t) => Cardinality(ActiveOf(t)) < MaxSessions

LEMMA ActiveIsFinite ==
  /\ \A t \in Token : IsFiniteSet(ActiveOf(t)) /\ Cardinality(ActiveOf(t)) \in Nat
  /\ \A t \in Token : ActiveOf(t)' \subseteq ActiveOf(t) =>
        Cardinality(ActiveOf(t)') <= Cardinality(ActiveOf(t)) /\ Cardinality(ActiveOf(t)') \in Nat
<1>1. ASSUME NEW t \in Token
      PROVE  IsFiniteSet(ActiveOf(t)) /\ Cardinality(ActiveOf(t)) \in Nat
  <2>1. ActiveOf(t) \subseteq Session
    BY DEF ActiveOf
  <2>. QED BY <2>1, ChatAssumption, FS_Subset, FS_CardinalityType
<1>2. ASSUME NEW t \in Token, ActiveOf(t)' \subseteq ActiveOf(t)
      PROVE  Cardinality(ActiveOf(t)') <= Cardinality(ActiveOf(t)) /\ Cardinality(ActiveOf(t)') \in Nat
  BY <1>1, <1>2, FS_Subset, FS_CardinalityType
<1>. QED BY <1>1, <1>2

(* Steps that open no session and begin no creation.                       *)
LEMMA FewerStands ==
  ASSUME CountStands, overlapped \subseteq overlapped',
         \A t \in Token : ActiveOf(t)' \subseteq ActiveOf(t),
         \A d \in Slot, t \in Token : Creates(d, t)' => Creates(d, t)
  PROVE  CountStands'
<1> SUFFICES ASSUME NEW t \in Token, t \notin overlapped'
             PROVE  /\ Cardinality(ActiveOf(t)') <= MaxSessions
                    /\ \A c, d \in Slot : Creates(c, t)' /\ Creates(d, t)' => c = d
                    /\ \A c \in Slot : Creates(c, t)' => Cardinality(ActiveOf(t)') < MaxSessions
  BY DEF CountStands
<1>1. t \in Token \ overlapped
  OBVIOUS
<1>2. /\ Cardinality(ActiveOf(t)') <= Cardinality(ActiveOf(t))
      /\ Cardinality(ActiveOf(t)') \in Nat /\ Cardinality(ActiveOf(t)) \in Nat
      /\ MaxSessions \in Nat
  BY ActiveIsFinite, ChatAssumption
<1>. QED BY <1>1, <1>2 DEF CountStands

LEMMA CreateCountStands ==
  ASSUME TypesOK, CountStands, NEW c \in Slot, NEW s \in Session, NEW t0 \in Token,
         CreateCount(c, s, t0)
  PROVE  CountStands'
<1>1. /\ \A d \in Slot \ {c} : call'[d] = call[d]
      /\ call'[c].pc = "load" /\ call'[c].by = t0 /\ call[c].pc \notin Creating
  BY DEF TypesOK, CreateCount, Arrive, At, Idle, Creating
<1>2. /\ \A t \in Token : ActiveOf(t)' = ActiveOf(t)
      /\ overlapped' = overlapped \cup {x \in {t0} : Busy(x)}
      /\ Cardinality(ActiveOf(t0)) < MaxSessions
  BY DEF CreateCount, ActiveOf
<1> SUFFICES ASSUME NEW t \in Token, t \notin overlapped'
             PROVE  /\ Cardinality(ActiveOf(t)') <= MaxSessions
                    /\ \A a, d \in Slot : Creates(a, t)' /\ Creates(d, t)' => a = d
                    /\ \A d \in Slot : Creates(d, t)' => Cardinality(ActiveOf(t)') < MaxSessions
  BY DEF CountStands
<1>3. t \in Token \ overlapped /\ ActiveOf(t)' = ActiveOf(t)
  BY <1>2
<1>4. CASE t = t0
  <2>1. \A d \in Slot : ~Creates(d, t)
    BY <1>2, <1>4 DEF Busy, Creates
  <2>2. \A d \in Slot : Creates(d, t)' => d = c
    BY <1>1, <2>1 DEF Creates
  <2>. QED BY <1>2, <1>3, <1>4, <2>2 DEF CountStands
<1>5. CASE t # t0
  <2>1. \A d \in Slot : Creates(d, t)' <=> Creates(d, t)
    BY <1>1, <1>5 DEF Creates
  <2>. QED BY <1>3, <2>1 DEF CountStands
<1>. QED BY <1>4, <1>5

(* One session more.                                                       *)
LEMMA OneMore ==
  ASSUME NEW S, IsFiniteSet(S), NEW x
  PROVE  /\ IsFiniteSet(S \cup {x}) /\ Cardinality(S \cup {x}) \in Nat
         /\ Cardinality(S) \in Nat /\ Cardinality(S \cup {x}) <= Cardinality(S) + 1
<1>1. /\ IsFiniteSet(S \cup {x})
      /\ Cardinality(S \cup {x}) = IF x \in S THEN Cardinality(S) ELSE Cardinality(S) + 1
  BY FS_AddElement
<1>2. Cardinality(S) \in Nat /\ Cardinality(S \cup {x}) \in Nat
  BY <1>1, FS_CardinalityType
<1>. QED BY <1>1, <1>2

LEMMA CreateInsertStands ==
  ASSUME TypesOK, CountStands, NEW c \in Slot, CreateInsert(c)
  PROVE  CountStands'
<1>1. /\ \A d \in Slot \ {c} : call'[d] = call[d]
      /\ call'[c].pc \notin Creating /\ call[c].pc \in Creating
  BY IdleIsCall DEF TypesOK, CreateInsert, Answer, At, Creating
<1>2. \A t \in Token : /\ t # call[c].by => ActiveOf(t)' \subseteq ActiveOf(t)
                       /\ ActiveOf(t)' \subseteq ActiveOf(t) \cup {call[c].session}
  BY DEF TypesOK, CreateInsert, ActiveOf
<1> SUFFICES ASSUME NEW t \in Token, t \notin overlapped'
             PROVE  /\ Cardinality(ActiveOf(t)') <= MaxSessions
                    /\ \A a, d \in Slot : Creates(a, t)' /\ Creates(d, t)' => a = d
                    /\ \A d \in Slot : Creates(d, t)' => Cardinality(ActiveOf(t)') < MaxSessions
  BY DEF CountStands
<1>3. t \in Token \ overlapped
  BY DEF CreateInsert
<1>4. /\ MaxSessions \in Nat /\ Cardinality(ActiveOf(t)) \in Nat /\ IsFiniteSet(ActiveOf(t))
  BY ChatAssumption, ActiveIsFinite
<1>5. CASE call[c].by = t
  <2>1. \A d \in Slot : ~Creates(d, t)'
    BY <1>1, <1>3, <1>5 DEF Creates, CountStands
  <2>2. Cardinality(ActiveOf(t)) < MaxSessions
    BY <1>1, <1>3, <1>5 DEF Creates, CountStands
  <2>3. /\ IsFiniteSet(ActiveOf(t) \cup {call[c].session})
        /\ Cardinality(ActiveOf(t) \cup {call[c].session}) \in Nat
        /\ Cardinality(ActiveOf(t) \cup {call[c].session}) <= Cardinality(ActiveOf(t)) + 1
    BY <1>4, OneMore
  <2>4. /\ Cardinality(ActiveOf(t)') <= Cardinality(ActiveOf(t) \cup {call[c].session})
        /\ Cardinality(ActiveOf(t)') \in Nat
    BY <1>2, <2>3, FS_Subset, FS_CardinalityType
  <2>. QED BY <1>4, <2>1, <2>2, <2>3, <2>4
<1>6. CASE call[c].by # t
  <2>1. \A d \in Slot : Creates(d, t)' => Creates(d, t)
    BY <1>1 DEF Creates
  <2>2. /\ Cardinality(ActiveOf(t)') <= Cardinality(ActiveOf(t))
        /\ Cardinality(ActiveOf(t)') \in Nat
    BY <1>2, <1>6, ActiveIsFinite
  <2>. QED BY <1>3, <1>4, <2>1, <2>2 DEF CountStands
<1>. QED BY <1>5, <1>6

(* The other handlers begin no creation and open no session.               *)
LEMMA OthersAreFewer ==
  ASSUME TypesOK, NEW c \in Slot, Handler(c), ~CreateInsert(c)
  PROVE  /\ overlapped' = overlapped
         /\ \A t \in Token : ActiveOf(t)' \subseteq ActiveOf(t)
         /\ \A d \in Slot, t \in Token : Creates(d, t)' => Creates(d, t)
<1>0. \A d \in Slot \ {c} : call'[d] = call[d]
  BY Alone
<1>1. call \in [Slot -> Calls] /\ call[c] \in Calls /\ row \in [Session -> Rows]
  BY DEF TypesOK
<1>2. /\ overlapped' = overlapped
      /\ \A t \in Token : ActiveOf(t)' \subseteq ActiveOf(t)
      /\ call'[c].pc \in Creating => call[c].pc \in Creating /\ call'[c].by = call[c].by
  <2>1. CASE CreateLoad(c)
    BY <1>1, <2>1 DEF CreateLoad, ActiveOf, At, Creating, Calls
  <2>2. CASE Claim(c, "save", "save_delete") \/ Claim(c, "cancel", "cancel_write")
    <3>1. \/ call' = [call EXCEPT ![c] = Idle]
          \/ \E p \in {"save_delete", "cancel_write"} :
                call' = [call EXCEPT ![c] = [@ EXCEPT !.pc = p, !.saw = staging.version]]
      BY <2>2 DEF Claim, Answer
    <3>2. call'[c] = Idle \/ call'[c].pc \in {"save_delete", "cancel_write"}
      BY <1>1, <3>1 DEF Calls
    <3>3. row' = row /\ overlapped' = overlapped
      BY <2>2 DEF Claim
    <3>. QED BY <3>2, <3>3, IdleIsCall DEF ActiveOf, Creating
  <2>3. CASE SaveDelete(c) \/ CancelDelete(c)
    BY <1>1, <2>3, IdleIsCall DEF SaveDelete, CancelDelete, Delete, NoRow, Answer, ActiveOf, Creating
  <2>4. CASE CancelWrite(c)
    <3>1. \A r \in Rows : /\ [r EXCEPT !.status = "cancelling"].status = "cancelling"
                          /\ [r EXCEPT !.status = "cancelling"].owner = r.owner
      BY DEF Rows
    <3>2. CASE Goto(c, "cancel_delete") /\ UNCHANGED row
      BY <1>1, <2>4, <3>2 DEF CancelWrite, Goto, ActiveOf, Creating, Calls
    <3>3. CASE /\ Answer(c)
               /\ row' = [row EXCEPT ![call[c].session].status = "cancelling"]
      <4>1. \A s \in Session : \/ row'[s] = row[s]
                               \/ row'[s].status = "cancelling"
        BY <1>1, <3>1, <3>3
      <4>2. \A t \in Token : ActiveOf(t)' \subseteq ActiveOf(t)
        BY <4>1 DEF ActiveOf
      <4>. QED BY <1>1, <2>4, <3>3, <4>2, IdleIsCall DEF CancelWrite, Answer, Creating
    <3>. QED BY <2>4, <3>2, <3>3 DEF CancelWrite
  <2>5. CASE TurnCommit(c)
    <3>1. \A r \in Rows, n \in Nat : /\ [r EXCEPT !.turns = n].status = r.status
                                     /\ [r EXCEPT !.turns = n].owner = r.owner
      BY DEF Rows
    <3>2. \A r \in Rows : r.turns \in Nat
      BY DEF Rows
    <3>3. \A s \in Session : row'[s].status = row[s].status /\ row'[s].owner = row[s].owner
      BY <1>1, <2>5, <3>1, <3>2 DEF TurnCommit
    <3>. QED BY <1>1, <2>5, <3>3 DEF TurnCommit, Goto, ActiveOf, Creating, Calls
  <2>6. CASE TurnRead(c) \/ TurnMessage(c) \/ TurnRegister(c)
    <3>1. \/ call' = [call EXCEPT ![c] = Idle]
          \/ \E p \in {"touch", "job"} : call' = [call EXCEPT ![c].pc = p]
          \/ \E n : call' = [call EXCEPT ![c] = [@ EXCEPT !.pc = "message", !.index = n]]
      BY <2>6 DEF TurnRead, TurnMessage, TurnRegister, Goto, Answer
    <3>2. call'[c] = Idle \/ call'[c].pc \in {"message", "touch", "job"}
      BY <1>1, <3>1 DEF Calls
    <3>3. row' = row /\ overlapped' = overlapped
      BY <2>6 DEF TurnRead, TurnMessage, TurnRegister
    <3>. QED BY <3>2, <3>3, IdleIsCall DEF ActiveOf, Creating
  <2>7. CASE JobRead(c) \/ JobImport(c) \/ JobFails(c) \/ TurnEnd(c) \/ DeadlockVictim(c)
    <3>1. \/ call' = [call EXCEPT ![c] = Idle]
          \/ call' = [call EXCEPT ![c].pc = "closing"]
          \/ \E v : call' = [call EXCEPT ![c] = [@ EXCEPT !.pc = "import", !.saw = v]]
      BY <2>7 DEF JobRead, JobImport, JobFails, TurnEnd, DeadlockVictim, Goto, Answer
    <3>2. call'[c] = Idle \/ call'[c].pc \in {"closing", "import"}
      BY <1>1, <3>1 DEF Calls
    <3>3. row' = row /\ overlapped' = overlapped
      BY <2>7 DEF JobRead, JobImport, JobFails, TurnEnd, DeadlockVictim
    <3>. QED BY <3>2, <3>3, IdleIsCall DEF ActiveOf, Creating
  <2>. QED BY <2>1, <2>2, <2>3, <2>4, <2>5, <2>6, <2>7 DEF Handler
<1>. QED BY <1>0, <1>2 DEF Creates

LEMMA CountInductive ==
  /\ Init => CountStands
  /\ TypesOK /\ CountStands /\ [Next]_vars => CountStands'
<1>1. Init => CountStands
  <2> SUFFICES ASSUME Init PROVE CountStands
    OBVIOUS
  <2>1. \A t \in Token : ActiveOf(t) = {}
    BY DEF Init, NoRow, ActiveOf
  <2>2. \A d \in Slot, t \in Token : ~Creates(d, t)
    BY IdleIsCall DEF Init, Creates, Creating
  <2>. QED BY <2>1, <2>2, FS_EmptySet, ChatAssumption DEF CountStands
<1>2. ASSUME TypesOK, CountStands, [Next]_vars PROVE CountStands'
  <2>1. CASE UNCHANGED vars
    BY <1>2, <2>1, FewerStands DEF vars, ActiveOf, Creates
  <2>2. ASSUME NEW c \in Slot, NEW s \in Session, NEW t \in Token,
               NEW pc \in {"save", "cancel", "turn"}, Request(c, pc, s, t)
        PROVE  CountStands'
    <3>1. /\ \A d \in Slot \ {c} : call'[d] = call[d]
          /\ call'[c].pc = pc /\ pc \notin Creating
      BY <1>2, <2>2 DEF TypesOK, Request, Arrive, Idle, Creating
    <3>2. \A d \in Slot, x \in Token : Creates(d, x)' => Creates(d, x)
      BY <3>1 DEF Creates
    <3>. QED BY <1>2, <2>2, <3>2, FewerStands DEF Request, ActiveOf
  <2>3. ASSUME NEW c \in Slot, Handler(c) PROVE CountStands'
    BY <1>2, <2>3, CreateInsertStands, OthersAreFewer, FewerStands
  <2>4. CASE Edit
    BY <1>2, <2>4, FewerStands DEF Edit, ActiveOf, Creates
  <2>5. CASE Restart
    <3>1. \A d \in Slot, t \in Token : ~Creates(d, t)'
      BY <2>5, IdleIsCall DEF Restart, Creates, Creating
    <3>. QED BY <1>2, <2>5, <3>1, FewerStands DEF Restart, ActiveOf
  <2>6. ASSUME NEW s \in Session, Sweep(s) PROVE CountStands'
    BY <1>2, <2>6, FewerStands DEF Sweep, ActiveOf, Creates, NoRow, TypesOK
  <2>. QED BY <1>2, <2>1, <2>2, <2>3, <2>4, <2>5, <2>6, CreateCountStands DEF Next
<1>. QED BY <1>1, <1>2

(* A token never has more active sessions than the cap, unless its         *)
(* creations overlapped.                                                   *)
THEOREM CapIsKept == Spec => []CapKept
<1>1. CountStands => CapKept
  BY DEF CountStands, CapKept
<1>. QED BY <1>1, TypesInductive, CountInductive, PTL DEF Spec

-----------------------------------------------------------------------------
(* Requests that do not overlap.                                           *)

Makes(c, s) == call[c].session = s /\ call[c].pc \in Creating
Uses(c, s) == call[c].session = s /\ call[c].pc \in Ending \cup Starting \cup Working

(* What a request that is alone with its session, or the task of its turn, *)
(* may rely on.                                                            *)
Along(c) ==
    LET s == call[c].session IN
    /\ call[c].pc \in {"message", "touch"} =>
          row[s].status = "active" /\ row[s].turns = call[c].index
    /\ call[c].pc \in {"register"} \cup Working =>
          row[s].status = "active" /\ row[s].turns = call[c].index + 1
    /\ call[c].pc \in Working => running[s] = c

(* A session is created once, before anybody uses it.                      *)
CreatedOnce ==
    \A s \in Session :
       /\ \A c \in Slot : Makes(c, s) => row[s].status = "none"
       /\ \A c, d \in Slot : Makes(c, s) /\ Makes(d, s) => c = d
       /\ \A c \in Slot : Uses(c, s) => row[s].status # "none"

OneAtATime ==
    \A s \in Session \ overlapped :
       /\ \A c, d \in Slot : Uses(c, s) /\ Uses(d, s) => c = d
       /\ \A c \in Slot : Uses(c, s) => Along(c)

(* A save or a cancel that has claimed its row keeps it, and the session.  *)
ClaimsStand ==
    \A c \in Slot :
       call[c].pc \in {"save_delete", "cancel_write", "cancel_delete"} =>
          updater[call[c].session] = c /\ There(call[c].session)

(* A step of a request, or of a turn's task, touches its own session only. *)
LEMMA HandlerEffects ==
  ASSUME TypesOK, LocksOK, NEW c \in Slot, Handler(c)
  PROVE  /\ call[c].session \in Session /\ call[c].pc # "idle"
         /\ call'[c] = Idle \/ call'[c].session = call[c].session
         /\ \A s \in Session \ {call[c].session} : row'[s] = row[s] /\ running'[s] = running[s]
         /\ overlapped' = overlapped
<1>1. /\ call \in [Slot -> Calls] /\ call[c] \in Calls
      /\ row \in [Session -> Rows] /\ running \in [Session -> Slot \cup {Nobody}]
  BY DEF TypesOK
<1>2. call[c].pc # "idle"
  BY DEF Handler, CreateLoad, CreateInsert, Claim, SaveDelete, CancelWrite, CancelDelete,
     TurnRead, TurnMessage, TurnCommit, TurnRegister, JobRead, JobImport, JobFails, TurnEnd,
     DeadlockVictim, Deadlocked, At
<1>3. call[c].session \in Session
  BY <1>2 DEF LocksOK, Named, At
<1>4. /\ call'[c] = Idle \/ call'[c].session = call[c].session
      /\ overlapped' = overlapped
  <2>1. CASE CreateLoad(c) \/ CreateInsert(c)
    BY <1>1, <2>1 DEF CreateLoad, CreateInsert, Answer, Calls
  <2>2. CASE Claim(c, "save", "save_delete") \/ Claim(c, "cancel", "cancel_write")
    BY <1>1, <2>2 DEF Claim, Answer, Calls
  <2>3. CASE SaveDelete(c) \/ CancelWrite(c) \/ CancelDelete(c)
    BY <1>1, <2>3 DEF SaveDelete, CancelWrite, CancelDelete, Delete, Goto, Answer, Calls
  <2>4. CASE TurnRead(c) \/ TurnMessage(c) \/ TurnCommit(c) \/ TurnRegister(c)
    <3>1. \/ call' = [call EXCEPT ![c] = Idle]
          \/ \E p : call' = [call EXCEPT ![c].pc = p]
          \/ \E n : call' = [call EXCEPT ![c] = [@ EXCEPT !.pc = "message", !.index = n]]
      BY <2>4 DEF TurnRead, TurnMessage, TurnCommit, TurnRegister, Goto, Answer
    <3>2. overlapped' = overlapped
      BY <2>4 DEF TurnRead, TurnMessage, TurnCommit, TurnRegister
    <3>. QED BY <1>1, <3>1, <3>2 DEF Calls
  <2>5. CASE JobRead(c) \/ JobImport(c) \/ JobFails(c) \/ TurnEnd(c) \/ DeadlockVictim(c)
    <3>1. \/ call' = [call EXCEPT ![c] = Idle]
          \/ \E p : call' = [call EXCEPT ![c].pc = p]
          \/ \E v : call' = [call EXCEPT ![c] = [@ EXCEPT !.pc = "import", !.saw = v]]
      BY <2>5 DEF JobRead, JobImport, JobFails, TurnEnd, DeadlockVictim, Goto, Answer
    <3>2. overlapped' = overlapped
      BY <2>5 DEF JobRead, JobImport, JobFails, TurnEnd, DeadlockVictim
    <3>. QED BY <1>1, <3>1, <3>2 DEF Calls
  <2>. QED BY <2>1, <2>2, <2>3, <2>4, <2>5 DEF Handler
<1>5. ASSUME NEW s \in Session \ {call[c].session}
      PROVE  row'[s] = row[s] /\ running'[s] = running[s]
  <2>1. CASE CreateLoad(c) \/ CreateInsert(c)
    BY <1>1, <1>3, <2>1 DEF CreateLoad, CreateInsert
  <2>2. CASE Claim(c, "save", "save_delete") \/ Claim(c, "cancel", "cancel_write")
    BY <2>2 DEF Claim
  <2>3. CASE SaveDelete(c) \/ CancelWrite(c) \/ CancelDelete(c)
    BY <1>1, <1>3, <2>3 DEF SaveDelete, CancelWrite, CancelDelete, Delete
  <2>4. CASE TurnRead(c) \/ TurnMessage(c) \/ TurnCommit(c) \/ TurnRegister(c)
    BY <1>1, <1>3, <2>4 DEF TurnRead, TurnMessage, TurnCommit, TurnRegister
  <2>5. CASE JobRead(c) \/ JobImport(c) \/ JobFails(c) \/ TurnEnd(c) \/ DeadlockVictim(c)
    BY <1>1, <1>3, <2>5 DEF JobRead, JobImport, JobFails, TurnEnd, DeadlockVictim
  <2>. QED BY <2>1, <2>2, <2>3, <2>4, <2>5 DEF Handler
<1>. QED BY <1>2, <1>3, <1>4, <1>5

(* A request for a session that is there leaves it there, or ended; and    *)
(* one that is alone with it goes from what it relied on to what its next  *)
(* statement relies on.                                                    *)
LEMMA UseEffects ==
  ASSUME TypesOK, LocksOK, NEW c \in Slot, Handler(c), call[c].pc \notin Creating
  PROVE  LET s == call[c].session IN
         /\ Uses(c, s)
         /\ call'[c].pc \notin Creating
         /\ row[s].status # "none" => row'[s].status # "none"
         /\ Along(c) => call'[c] = Idle \/ Along(c)'
<1> DEFINE s == call[c].session
<1>1. /\ call \in [Slot -> Calls] /\ call[c] \in Calls
      /\ row \in [Session -> Rows] /\ row[s] \in Rows /\ running \in [Session -> Slot \cup {Nobody}]
      /\ s \in Session /\ call[c].pc # "idle"
  BY HandlerEffects DEF TypesOK
<1>2. Uses(c, s)
  BY <1>1 DEF Uses, Calls
<1>3. Idle.pc \notin Creating
  BY IdleIsCall DEF Creating
<1>4. CASE Claim(c, "save", "save_delete") \/ Claim(c, "cancel", "cancel_write")
  <2>1. \/ call' = [call EXCEPT ![c] = Idle]
        \/ \E p \in {"save_delete", "cancel_write"} :
              call' = [call EXCEPT ![c] = [@ EXCEPT !.pc = p, !.saw = staging.version]]
    BY <1>4 DEF Claim, Answer
  <2>2. call[c].pc \in {"save", "cancel"} /\ row' = row /\ running' = running
    BY <1>4 DEF Claim, At
  <2>3. call'[c] = Idle \/ call'[c].pc \in {"save_delete", "cancel_write"}
    BY <1>1, <2>1 DEF Calls
  <2>4. call'[c].pc \notin Creating
    BY <1>3, <2>3 DEF Creating
  <2>5. call'[c] = Idle \/ Along(c)'
    BY <2>3 DEF Along, Working
  <2>. QED BY <1>2, <2>2, <2>4, <2>5
<1>5. CASE SaveDelete(c) \/ CancelDelete(c)
  <2>1. call'[c] = Idle
    BY <1>1, <1>5 DEF SaveDelete, CancelDelete, Delete, Answer
  <2>2. row'[s].status \in {"saved", "cancelled"}
    BY <1>1, <1>5 DEF SaveDelete, CancelDelete, Delete, NoRow
  <2>. QED BY <1>2, <1>3, <2>1, <2>2
<1>6. CASE CancelWrite(c)
  <2>1. CASE Goto(c, "cancel_delete") /\ UNCHANGED row
    BY <1>1, <1>2, <2>1 DEF Goto, Creating, Calls, Along, Working
  <2>2. CASE Answer(c) /\ row' = [row EXCEPT ![s].status = "cancelling"]
    <3>1. call'[c] = Idle /\ row'[s].status = "cancelling"
      BY <1>1, <2>2 DEF Answer, Rows
    <3>. QED BY <1>2, <1>3, <3>1
  <2>. QED BY <1>6, <2>1, <2>2 DEF CancelWrite
<1>7. CASE TurnRead(c)
  <2>1. CASE Answer(c) /\ UNCHANGED row
    BY <1>1, <1>2, <1>3, <2>1 DEF Answer
  <2>2. CASE /\ row[s].status = "active" /\ UNCHANGED row
             /\ call' = [call EXCEPT ![c] = [@ EXCEPT !.pc = "message", !.index = row[s].turns]]
    <3>1. call'[c].pc = "message" /\ call'[c].session = s /\ call'[c].index = row[s].turns
      BY <1>1, <2>2 DEF Calls
    <3>. QED BY <1>2, <2>2, <3>1 DEF Creating, Along, Working
  <2>. QED BY <1>7, <2>1, <2>2 DEF TurnRead
<1>8. CASE TurnMessage(c)
  <2>1. CASE Answer(c) /\ UNCHANGED row
    BY <1>1, <1>2, <1>3, <2>1 DEF Answer
  <2>2. CASE Goto(c, "touch") /\ UNCHANGED row
    <3>1. call'[c].pc = "touch" /\ call'[c].session = s /\ call'[c].index = call[c].index
          /\ call[c].pc = "message"
      BY <1>1, <1>8, <2>2 DEF Goto, Calls, TurnMessage, At
    <3>. QED BY <1>2, <2>2, <3>1 DEF Creating, Along, Working
  <2>. QED BY <1>8, <2>1, <2>2 DEF TurnMessage
<1>9. CASE TurnCommit(c)
  <2>1. /\ call[c].pc = "touch" /\ call'[c].pc = "register" /\ call'[c].session = s
        /\ call'[c].index = call[c].index
    BY <1>1, <1>9 DEF TurnCommit, Goto, At, Calls
  <2>2. /\ row'[s].status = row[s].status
        /\ row[s].turns = call[c].index => row'[s].turns = call[c].index + 1
    <3>1. row[s].turns \in Nat /\ call[c].index \in Nat
      BY <1>1 DEF Rows, Calls
    <3>2. row'[s] = [row[s] EXCEPT !.turns = IF @ > call[c].index THEN @ ELSE @ + 1]
      BY <1>1, <1>9 DEF TurnCommit
    <3>. QED BY <1>1, <3>1, <3>2 DEF Rows
  <2>. QED BY <1>2, <2>1, <2>2 DEF Creating, Along, Working
<1>10. CASE TurnRegister(c)
  <2>1. /\ call[c].pc = "register" /\ call'[c].pc = "job" /\ call'[c].session = s
        /\ call'[c].index = call[c].index /\ row' = row /\ running'[s] = c
    BY <1>1, <1>10 DEF TurnRegister, Goto, At, Calls
  <2>. QED BY <1>2, <2>1 DEF Creating, Along, Working
<1>11. CASE JobRead(c) \/ JobImport(c) \/ JobFails(c)
  BY <1>2, <1>11, TurnGoesOn DEF Along, Creating, Working
<1>12. CASE TurnEnd(c) \/ DeadlockVictim(c)
  BY <1>1, <1>2, <1>3, <1>12 DEF TurnEnd, DeadlockVictim, Answer
<1>13. ~(CreateLoad(c) \/ CreateInsert(c))
  BY DEF CreateLoad, CreateInsert, At, Creating
<1>. QED BY <1>4, <1>5, <1>6, <1>7, <1>8, <1>9, <1>10, <1>11, <1>12, <1>13 DEF Handler

(* The creation of a session.                                              *)
LEMMA MakeEffects ==
  ASSUME TypesOK, NEW c \in Slot, CreateLoad(c) \/ CreateInsert(c)
  PROVE  /\ call[c].pc \in Creating
         /\ \/ /\ call'[c].session = call[c].session /\ call'[c].pc \in Creating
               /\ UNCHANGED row
            \/ /\ call'[c] = Idle
               /\ \A s \in Session \ {call[c].session} : row'[s] = row[s]
               /\ call[c].session \in Session => row'[call[c].session].status = "active"
         /\ UNCHANGED <<running, overlapped>>
<1>1. call \in [Slot -> Calls] /\ call[c] \in Calls /\ row \in [Session -> Rows]
  BY DEF TypesOK
<1>2. CASE CreateLoad(c)
  BY <1>1, <1>2 DEF CreateLoad, At, Creating, Calls
<1>3. CASE CreateInsert(c)
  BY <1>1, <1>3 DEF CreateInsert, Answer, At, Creating
<1>. QED BY <1>2, <1>3

LEMMA IdleIsNeither == ASSUME NEW c \in Slot, call[c].pc = "idle", NEW s
                       PROVE  ~Makes(c, s) /\ ~Uses(c, s)
BY DEF Makes, Uses, Creating, Ending, Starting, Working

LEMMA MakesOrUses == ASSUME NEW c \in Slot, NEW s
                     PROVE  ~(Makes(c, s) /\ Uses(c, s))
BY DEF Makes, Uses, Creating, Ending, Starting, Working

(* A step of a handler.                                                    *)
LEMMA HandlerKeepsCreated ==
  ASSUME TypesOK, LocksOK, CreatedOnce, NEW c \in Slot, Handler(c)
  PROVE  CreatedOnce'
<1> DEFINE s0 == call[c].session
<1>1. /\ s0 \in Session /\ \A d \in Slot \ {c} : call'[d] = call[d]
      /\ call'[c] = Idle \/ call'[c].session = s0
      /\ \A s \in Session \ {s0} : row'[s] = row[s]
  BY HandlerEffects, Alone
<1>2. \A d \in Slot \ {c}, s \in Session :
         (Makes(d, s)' <=> Makes(d, s)) /\ (Uses(d, s)' <=> Uses(d, s))
  BY <1>1 DEF Makes, Uses
<1>3. \A s \in Session \ {s0} : ~Makes(c, s)' /\ ~Uses(c, s)'
  BY <1>1, IdleIsCall DEF Makes, Uses, Creating, Ending, Starting, Working
<1> SUFFICES ASSUME NEW s \in Session
             PROVE  /\ \A d \in Slot : Makes(d, s)' => row'[s].status = "none"
                    /\ \A d, e \in Slot : Makes(d, s)' /\ Makes(e, s)' => d = e
                    /\ \A d \in Slot : Uses(d, s)' => row'[s].status # "none"
  BY DEF CreatedOnce
<1>4. CASE s # s0
  BY <1>1, <1>2, <1>3, <1>4 DEF CreatedOnce
<1>5. CASE s = s0 /\ call[c].pc \notin Creating
  <2>1. Uses(c, s) /\ ~Makes(c, s)' /\ row'[s].status # "none"
    BY <1>5, UseEffects DEF CreatedOnce, Makes
  <2>2. \A d \in Slot : ~Makes(d, s)
    BY <2>1 DEF CreatedOnce
  <2>. QED BY <1>2, <2>1, <2>2
<1>6. CASE s = s0 /\ call[c].pc \in Creating
  <2>1. Makes(c, s) /\ \A d \in Slot \ {c} : ~Makes(d, s) /\ ~Uses(d, s)
    BY <1>6 DEF CreatedOnce, Makes
  <2>2. CreateLoad(c) \/ CreateInsert(c)
    BY <1>6 DEF Handler, Claim, SaveDelete, CancelWrite, CancelDelete,
       TurnRead, TurnMessage, TurnCommit, TurnRegister, JobRead, JobImport, JobFails, TurnEnd,
       DeadlockVictim, Deadlocked, At, Creating
  <2>3. CASE call'[c].session = s0 /\ call'[c].pc \in Creating /\ UNCHANGED row
    <3>1. Makes(c, s)' /\ ~Uses(c, s)'
      BY <1>6, <2>3 DEF Makes, Uses, Creating, Ending, Starting, Working
    <3>. QED BY <1>2, <2>1, <2>3, <3>1 DEF CreatedOnce
  <2>4. CASE call'[c] = Idle
    <3>1. ~Makes(c, s)' /\ ~Uses(c, s)'
      BY <2>4, IdleIsCall DEF Makes, Uses, Creating, Ending, Starting, Working
    <3>. QED BY <1>2, <2>1, <3>1
  <2>. QED BY <2>2, <2>3, <2>4, MakeEffects
<1>. QED BY <1>4, <1>5, <1>6

LEMMA HandlerKeepsOne ==
  ASSUME TypesOK, LocksOK, CreatedOnce, OneAtATime, NEW c \in Slot, Handler(c)
  PROVE  OneAtATime'
<1> DEFINE s0 == call[c].session
<1>1. /\ s0 \in Session /\ \A d \in Slot \ {c} : call'[d] = call[d]
      /\ call'[c] = Idle \/ call'[c].session = s0
      /\ \A s \in Session \ {s0} : row'[s] = row[s] /\ running'[s] = running[s]
      /\ overlapped' = overlapped
  BY HandlerEffects, Alone
<1>2. \A d \in Slot \ {c}, s \in Session : Uses(d, s)' <=> Uses(d, s)
  BY <1>1 DEF Uses
<1>3. \A s \in Session \ {s0} : ~Uses(c, s)'
  BY <1>1, IdleIsCall DEF Uses, Ending, Starting, Working
<1> SUFFICES ASSUME NEW s \in Session, s \notin overlapped
             PROVE  /\ \A d, e \in Slot : Uses(d, s)' /\ Uses(e, s)' => d = e
                    /\ \A d \in Slot : Uses(d, s)' => Along(d)'
  BY <1>1 DEF OneAtATime
<1>4. CASE s # s0
  <2>1. ASSUME NEW d \in Slot, Uses(d, s)' PROVE Along(d)'
    <3>1. d # c /\ Uses(d, s) /\ Along(d) /\ call'[d] = call[d] /\ call[d].session = s
      BY <1>1, <1>2, <1>3, <1>4, <2>1 DEF OneAtATime, Uses
    <3>. QED BY <1>1, <1>4, <3>1 DEF Along
  <2>. QED BY <1>2, <1>3, <1>4, <2>1 DEF OneAtATime
<1>5. CASE s = s0 /\ call[c].pc \notin Creating
  <2>1. Uses(c, s) /\ (call'[c] = Idle \/ Along(c)')
    BY <1>5, UseEffects DEF OneAtATime
  <2>2. \A d \in Slot : Uses(d, s)' => d = c
    BY <1>2, <2>1 DEF OneAtATime
  <2>3. call'[c] = Idle => ~Uses(c, s)'
    BY IdleIsCall DEF Uses, Ending, Starting, Working
  <2>. QED BY <2>1, <2>2, <2>3
<1>6. CASE s = s0 /\ call[c].pc \in Creating
  <2>1. \A d \in Slot \ {c} : ~Uses(d, s)
    BY <1>6 DEF CreatedOnce, Makes
  <2>2. CreateLoad(c) \/ CreateInsert(c)
    BY <1>6 DEF Handler, Claim, SaveDelete, CancelWrite, CancelDelete,
       TurnRead, TurnMessage, TurnCommit, TurnRegister, JobRead, JobImport, JobFails, TurnEnd,
       DeadlockVictim, Deadlocked, At, Creating
  <2>3. ~Uses(c, s)'
    BY <2>2, MakeEffects, IdleIsCall DEF Uses, Creating, Ending, Starting, Working
  <2>. QED BY <1>2, <2>1, <2>3
<1>. QED BY <1>4, <1>5, <1>6

(* A request comes in.                                                     *)
LEMMA RequestKeepsOne ==
  ASSUME TypesOK, CreatedOnce, OneAtATime, NEW c \in Slot, NEW s0 \in Session,
         NEW t \in Token, NEW pc \in {"save", "cancel", "turn"}, Request(c, pc, s0, t)
  PROVE  CreatedOnce' /\ OneAtATime'
<1>1. /\ \A d \in Slot \ {c} : call'[d] = call[d]
      /\ call'[c].pc = pc /\ call'[c].session = s0 /\ call[c].pc = "idle"
      /\ UNCHANGED <<row, running>>
      /\ overlapped' = overlapped \cup {x \in {s0} : Busy(x)}
      /\ row[s0].status # "none" /\ running[s0] = Nobody
  BY DEF TypesOK, Request, Arrive, Idle, At, There
<1>2. \A d \in Slot \ {c}, s \in Session :
         /\ Makes(d, s)' <=> Makes(d, s)
         /\ Uses(d, s)' <=> Uses(d, s)
         /\ Along(d)' <=> Along(d)
  BY <1>1 DEF Makes, Uses, Along
<1>3. /\ \A s \in Session : ~Makes(c, s)' /\ ~Makes(c, s) /\ ~Uses(c, s)
      /\ \A s \in Session : Uses(c, s)' => s = s0
      /\ Along(c)'
  BY <1>1, IdleIsNeither DEF Makes, Uses, Along, Creating, Working
<1>4. CreatedOnce'
  BY <1>1, <1>2, <1>3 DEF CreatedOnce
<1>5. ASSUME NEW s \in Session, s \notin overlapped'
      PROVE  /\ \A d, e \in Slot : Uses(d, s)' /\ Uses(e, s)' => d = e
             /\ \A d \in Slot : Uses(d, s)' => Along(d)'
  <2>1. s \notin overlapped
    BY <1>1, <1>5
  <2>2. CASE s # s0
    BY <1>2, <1>3, <2>1, <2>2 DEF OneAtATime
  <2>3. CASE s = s0
    <3>1. ~Busy(s)
      BY <1>1, <1>5, <2>3
    <3>2. ASSUME NEW d \in Slot, Uses(d, s) PROVE FALSE
      <4>1. call[d].pc \in Working
        BY <3>1, <3>2 DEF Busy, Uses
      <4>2. running[s] = d
        BY <2>1, <3>2, <4>1 DEF OneAtATime, Along, Uses
      <4>. QED BY <1>1, <2>3, <4>2, ChatAssumption
    <3>. QED BY <1>2, <1>3, <3>2
  <2>. QED BY <2>2, <2>3
<1>. QED BY <1>4, <1>5 DEF OneAtATime

LEMMA CreateKeepsOne ==
  ASSUME TypesOK, CreatedOnce, OneAtATime, NEW c \in Slot, NEW s0 \in Session,
         NEW t \in Token, CreateCount(c, s0, t)
  PROVE  CreatedOnce' /\ OneAtATime'
<1>1. /\ \A d \in Slot \ {c} : call'[d] = call[d]
      /\ call'[c].pc = "load" /\ call'[c].session = s0 /\ call[c].pc = "idle"
      /\ UNCHANGED <<row, running>>
      /\ overlapped \subseteq overlapped'
      /\ row[s0].status = "none"
      /\ \A d \in Slot : ~Makes(d, s0)
  BY DEF TypesOK, CreateCount, Arrive, Idle, At, Makes
<1>2. \A d \in Slot \ {c}, s \in Session :
         /\ Makes(d, s)' <=> Makes(d, s)
         /\ Uses(d, s)' <=> Uses(d, s)
         /\ Along(d)' <=> Along(d)
  BY <1>1 DEF Makes, Uses, Along
<1>3. \A s \in Session : (Makes(c, s)' => s = s0) /\ ~Uses(c, s)' /\ ~Uses(c, s)
  BY <1>1, IdleIsNeither DEF Makes, Uses, Ending, Starting, Working
<1>4. CreatedOnce'
  BY <1>1, <1>2, <1>3 DEF CreatedOnce
<1>5. OneAtATime'
  BY <1>1, <1>2, <1>3 DEF OneAtATime
<1>. QED BY <1>4, <1>5

LEMMA OneInductive ==
  /\ Init => CreatedOnce /\ OneAtATime
  /\ TypesOK /\ LocksOK /\ CreatedOnce /\ OneAtATime /\ [Next]_vars
     => CreatedOnce' /\ OneAtATime'
<1>1. Init => CreatedOnce /\ OneAtATime
  BY IdleIsCall, IdleIsNeither DEF Init, CreatedOnce, OneAtATime
<1>2. ASSUME TypesOK, LocksOK, CreatedOnce, OneAtATime, [Next]_vars
      PROVE  CreatedOnce' /\ OneAtATime'
  <2>1. CASE UNCHANGED <<row, running, call, overlapped>>
    <3>1. \A d \in Slot, s \in Session :
             /\ Makes(d, s)' <=> Makes(d, s)
             /\ Uses(d, s)' <=> Uses(d, s)
             /\ Along(d)' <=> Along(d)
      BY <2>1 DEF Makes, Uses, Along
    <3>. QED BY <1>2, <2>1, <3>1 DEF CreatedOnce, OneAtATime
  <2>2. CASE Restart
    <3>1. \A d \in Slot : call'[d] = Idle
      BY <2>2 DEF Restart
    <3>2. \A d \in Slot, s \in Session : ~Makes(d, s)' /\ ~Uses(d, s)'
      BY <3>1, IdleIsCall DEF Makes, Uses, Creating, Ending, Starting, Working
    <3>. QED BY <3>2 DEF CreatedOnce, OneAtATime
  <2>3. ASSUME NEW x \in Session, Sweep(x) PROVE CreatedOnce' /\ OneAtATime'
    <3>1. \A d \in Slot, s \in Session : ~Makes(d, s)' /\ ~Uses(d, s)'
      BY <2>3 DEF Sweep, At, Makes, Uses, Creating, Ending, Starting, Working
    <3>. QED BY <3>1 DEF CreatedOnce, OneAtATime
  <2>. QED BY <1>2, <2>1, <2>2, <2>3, HandlerKeepsCreated, HandlerKeepsOne,
              RequestKeepsOne, CreateKeepsOne DEF Next, vars, Edit
<1>. QED BY <1>1, <1>2

(* Requests of a session that do not overlap: one turn at a time, in an    *)
(* active session, under an index of its own.                              *)
THEOREM SequentialIsSafe == Spec => []SequentialCallsAreSafe
<1>1. TypesOK /\ OneAtATime => SequentialCallsAreSafe
  <2> SUFFICES ASSUME OneAtATime, NEW s \in Session \ overlapped
               PROVE  /\ Cardinality(TurnsOf(s)) <= 1
                      /\ \A c \in TurnsOf(s) : /\ row[s].status = "active"
                                               /\ row[s].turns = call[c].index + 1
    BY DEF SequentialCallsAreSafe
  <2>1. \A c \in TurnsOf(s) : c \in Slot /\ Uses(c, s) /\ Along(c) /\ call[c].pc \in Working
                              /\ call[c].session = s
    BY DEF TurnsOf, Uses, OneAtATime
  <2>2. Cardinality(TurnsOf(s)) <= 1
    <3>1. CASE TurnsOf(s) = {}
      BY <3>1, FS_EmptySet
    <3>2. CASE TurnsOf(s) # {}
      <4>1. PICK c : TurnsOf(s) = {c}
        BY <2>1, <3>2 DEF OneAtATime
      <4>2. Cardinality({c}) = 1
        BY FS_Singleton
      <4>. QED BY <4>1, <4>2
    <3>. QED BY <3>1, <3>2
  <2>. QED BY <2>1, <2>2 DEF Along
<1>. QED BY <1>1, TypesInductive, OneInductive, PTL DEF Spec

-----------------------------------------------------------------------------
(* The life of a session.                                                  *)

Claimed == {"save_delete", "cancel_write", "cancel_delete"}

(* There(s), of a row of either state.                                     *)
Stands(r) == r.status \in {"active", "cancelling"}

(* What a handler does to the row of its session.                          *)
LEMMA RowEffects ==
  ASSUME TypesOK, LocksOK, NEW c \in Slot, Handler(c), call[c].pc \notin Creating
  PROVE  LET s == call[c].session IN
         \/ /\ row'[s].status = row[s].status /\ row'[s].pre = row[s].pre
            /\ row'[s].owner = row[s].owner
         \/ /\ CancelWrite(c) /\ call'[c] = Idle
            /\ row'[s] = [row[s] EXCEPT !.status = "cancelling"]
         \/ SaveDelete(c) \/ CancelDelete(c)
<1> DEFINE s == call[c].session
<1>1. call \in [Slot -> Calls] /\ row \in [Session -> Rows] /\ s \in Session /\ row[s] \in Rows
  BY HandlerEffects DEF TypesOK
<1>2. CASE CancelWrite(c)
  BY <1>1, <1>2 DEF CancelWrite, Answer
<1>3. CASE TurnCommit(c)
  <2>1. row'[s] = [row[s] EXCEPT !.turns = IF @ > call[c].index THEN @ ELSE @ + 1]
    BY <1>1, <1>3 DEF TurnCommit
  <2>. QED BY <1>1, <2>1 DEF Rows
<1>4. CASE UNCHANGED row
  BY <1>4
<1>5. ~(CreateLoad(c) \/ CreateInsert(c))
  BY DEF CreateLoad, CreateInsert, At, Creating
<1>. QED BY <1>2, <1>3, <1>4, <1>5 DEF Handler, Claim, TurnRead, TurnMessage, TurnRegister,
            JobRead, JobImport, JobFails, TurnEnd, DeadlockVictim

(* Another handler leaves a claimed row claimed, and the session there.    *)
LEMMA OthersRespectClaims ==
  ASSUME TypesOK, LocksOK, CreatedOnce, ClaimsStand, NEW c \in Slot, NEW d \in Slot,
         Handler(d), c # d, call[c].pc \in Claimed
  PROVE  updater'[call[c].session] = c /\ Stands(row'[call[c].session])
<1> DEFINE s == call[c].session
<1>1. /\ s \in Session /\ updater[s] = c /\ There(s) /\ c # Nobody
      /\ updater \in [Session -> Slot \cup {Nobody}] /\ row \in [Session -> Rows]
  BY ChatAssumption DEF ClaimsStand, Claimed, LocksOK, Named, At, TypesOK
<1>2. updater'[s] = c
  <2>1. CASE Claim(d, "save", "save_delete") \/ Claim(d, "cancel", "cancel_write")
    <3>1. \/ UNCHANGED updater
          \/ updater[call[d].session] = Nobody /\ updater' = [updater EXCEPT ![call[d].session] = d]
      BY <2>1 DEF Claim
    <3>. QED BY <1>1, <3>1
  <2>2. CASE Release(d)
    BY <1>1, <2>2 DEF Release
  <2>3. CASE UNCHANGED updater
    BY <1>1, <2>3
  <2>. QED BY <2>1, <2>2, <2>3 DEF Handler, CreateLoad, CreateInsert, SaveDelete, CancelWrite,
       CancelDelete, Delete, TurnRead, TurnMessage, TurnCommit, TurnRegister, JobRead, JobImport,
       JobFails, TurnEnd, DeadlockVictim, locks
<1>3. Stands(row'[s])
  <2>1. CASE call[d].session # s
    BY <1>1, <2>1, HandlerEffects DEF There, Stands
  <2>2. CASE call[d].session = s /\ call[d].pc \in Creating
    BY <1>1, <2>2 DEF CreatedOnce, Makes, There
  <2>3. CASE call[d].session = s /\ call[d].pc \notin Creating
    <3>1. call[d].pc \notin {"save_delete", "cancel_delete"}
      BY <1>1, <2>3 DEF ClaimsStand
    <3>2. ~SaveDelete(d) /\ ~CancelDelete(d)
      BY <3>1 DEF SaveDelete, CancelDelete, At
    <3>3. \/ row'[s].status = row[s].status
          \/ row'[s] = [row[s] EXCEPT !.status = "cancelling"]
      BY <2>3, <3>2, RowEffects
    <3>4. row[s] \in Rows /\ row[s].status \in {"active", "cancelling"}
      BY <1>1 DEF There
    <3>. QED BY <3>3, <3>4 DEF Stands, Rows
  <2>. QED BY <2>1, <2>2, <2>3
<1>. QED BY <1>2, <1>3

LEMMA OwnClaim ==
  ASSUME TypesOK, LocksOK, ClaimsStand, NEW c \in Slot, Handler(c), call'[c].pc \in Claimed
  PROVE  updater'[call'[c].session] = c /\ Stands(row'[call'[c].session])
<1> DEFINE s == call[c].session
<1>1. /\ call \in [Slot -> Calls] /\ call[c] \in Calls /\ s \in Session
      /\ updater \in [Session -> Slot \cup {Nobody}] /\ row \in [Session -> Rows]
      /\ Idle.pc \notin Claimed
  BY HandlerEffects, IdleIsCall DEF TypesOK, Claimed
<1>2. call'[c].session = s /\ call'[c] # Idle
  BY <1>1, HandlerEffects
<1>3. CASE Claim(c, "save", "save_delete") \/ Claim(c, "cancel", "cancel_write")
  <2>1. There(s) /\ updater' = [updater EXCEPT ![s] = c] /\ UNCHANGED row
    BY <1>1, <1>2, <1>3 DEF Claim, Answer
  <2>. QED BY <1>1, <1>2, <2>1 DEF There, Stands
<1>4. CASE CancelWrite(c)
  <2>1. UNCHANGED <<row, updater>> /\ call[c].pc = "cancel_write"
    BY <1>1, <1>2, <1>4 DEF CancelWrite, Answer, At
  <2>. QED BY <1>2, <2>1 DEF ClaimsStand, There, Stands
<1>5. ~(SaveDelete(c) \/ CancelDelete(c) \/ TurnEnd(c) \/ DeadlockVictim(c) \/ CreateInsert(c))
  BY <1>1, <1>2 DEF SaveDelete, CancelDelete, Delete, TurnEnd, DeadlockVictim, CreateInsert, Answer
<1>6. ~(CreateLoad(c) \/ TurnRead(c) \/ TurnMessage(c) \/ TurnCommit(c) \/ TurnRegister(c)
        \/ JobRead(c) \/ JobImport(c) \/ JobFails(c))
  <2>1. ASSUME \/ \E p \in {"touch", "register", "job", "closing"} :
                       call' = [call EXCEPT ![c].pc = p]
               \/ \E v : call' = [call EXCEPT ![c] = [@ EXCEPT !.pc = "insert", !.copy = v]]
               \/ \E v : call' = [call EXCEPT ![c] = [@ EXCEPT !.pc = "message", !.index = v]]
               \/ \E v : call' = [call EXCEPT ![c] = [@ EXCEPT !.pc = "import", !.saw = v]]
        PROVE  FALSE
    <3>1. call'[c].pc \in {"touch", "register", "job", "closing", "insert", "message", "import"}
      <4>1. CASE \E p \in {"touch", "register", "job", "closing"} :
                    call' = [call EXCEPT ![c].pc = p]
        BY <1>1, <4>1 DEF Calls
      <4>2. CASE \E v : call' = [call EXCEPT ![c] = [@ EXCEPT !.pc = "insert", !.copy = v]]
        BY <1>1, <4>2 DEF Calls
      <4>3. CASE \E v : call' = [call EXCEPT ![c] = [@ EXCEPT !.pc = "message", !.index = v]]
        BY <1>1, <4>3 DEF Calls
      <4>4. CASE \E v : call' = [call EXCEPT ![c] = [@ EXCEPT !.pc = "import", !.saw = v]]
        BY <1>1, <4>4 DEF Calls
      <4>. QED BY <2>1, <4>1, <4>2, <4>3, <4>4
    <3>. QED BY <3>1 DEF Claimed
  <2>2. ASSUME CreateLoad(c) \/ TurnRead(c) \/ TurnMessage(c)
        PROVE  FALSE
    BY <1>1, <1>2, <2>1, <2>2 DEF CreateLoad, TurnRead, TurnMessage, Goto, Answer
  <2>3. ASSUME TurnCommit(c) \/ TurnRegister(c)
        PROVE  FALSE
    BY <2>1, <2>3 DEF TurnCommit, TurnRegister, Goto
  <2>4. ASSUME JobRead(c) \/ JobImport(c) \/ JobFails(c)
        PROVE  FALSE
    BY <2>1, <2>4 DEF JobRead, JobImport, JobFails, Goto
  <2>. QED BY <2>2, <2>3, <2>4
<1>. QED BY <1>3, <1>4, <1>5, <1>6 DEF Handler

LEMMA ClaimsInductive ==
  /\ Init => ClaimsStand
  /\ TypesOK /\ LocksOK /\ CreatedOnce /\ ClaimsStand /\ [Next]_vars => ClaimsStand'
<1>1. Init => ClaimsStand
  BY IdleIsCall DEF Init, ClaimsStand
<1>2. ASSUME TypesOK, LocksOK, CreatedOnce, ClaimsStand, [Next]_vars PROVE ClaimsStand'
  <2> SUFFICES ASSUME NEW c \in Slot, call'[c].pc \in Claimed
               PROVE  updater'[call'[c].session] = c /\ Stands(row'[call'[c].session])
    BY DEF ClaimsStand, Claimed, There, Stands
  <2>1. CASE UNCHANGED <<row, updater>> /\ call'[c] = call[c]
    BY <1>2, <2>1 DEF ClaimsStand, Claimed, There, Stands
  <2>2. ASSUME NEW d \in Slot, NEW s \in Session, NEW t \in Token,
               CreateCount(d, s, t) \/ \E pc \in {"save", "cancel", "turn"} : Request(d, pc, s, t)
        PROVE  UNCHANGED <<row, updater>> /\ call'[c] = call[c]
    <3>1. UNCHANGED <<row, updater>> /\ (c # d => call'[c] = call[c])
      BY <1>2, <2>2 DEF CreateCount, Request, Arrive, locks, TypesOK
    <3>2. call'[d].pc \in {"load", "save", "cancel", "turn"}
      <4>1. \A pc : Arrive(d, pc, s, t) => call'[d].pc = pc
        BY <1>2 DEF Arrive, Idle, TypesOK
      <4>. QED BY <2>2, <4>1 DEF CreateCount, Request
    <3>. QED BY <3>1, <3>2 DEF Claimed
  <2>3. ASSUME NEW d \in Slot, Handler(d)
        PROVE  updater'[call'[c].session] = c /\ Stands(row'[call'[c].session])
    <3>1. CASE c = d
      BY <1>2, <2>3, <3>1, OwnClaim
    <3>2. CASE c # d
      BY <1>2, <2>3, <3>2, Alone, OthersRespectClaims
    <3>. QED BY <3>1, <3>2
  <2>4. ~Restart
    BY IdleIsCall DEF Restart, Claimed
  <2>5. ~ \E s \in Session : Sweep(s)
    BY DEF Sweep, At, Claimed
  <2>. QED BY <1>2, <2>1, <2>2, <2>3, <2>4, <2>5 DEF Next, vars, locks, Edit
<1>. QED BY <1>1, <1>2

-----------------------------------------------------------------------------
(* The refinement of SessionLife, step by step.                            *)

(* Slot d has the copy of staging that session s will be opened with.      *)
Copies(d, s) == At(d, "insert") /\ call[d].session = s

LEMMA CopyOfRow ==
  ASSUME NEW s \in Session, There(s)
  PROVE  CopyFor(s) = row[s].pre
BY DEF CopyFor

LEMMA CopyOfNobody ==
  ASSUME NEW s \in Session, ~There(s),
         \A d \in Slot : ~(At(d, "insert") /\ call[d].session = s)
  PROVE  CopyFor(s) = {}
BY DEF CopyFor

LEMMA CopyOfMaker ==
  ASSUME NEW s \in Session, ~There(s), NEW c \in Slot, call[c].pc = "insert", call[c].session = s,
         \A d \in Slot \ {c} : ~(At(d, "insert") /\ call[d].session = s)
  PROVE  CopyFor(s) = call[c].copy
<1>1. {d \in Slot : At(d, "insert") /\ call[d].session = s} = {c}
  BY DEF At
<1>2. CopyFor(s) = UNION {call[e].copy : e \in {c}}
  BY <1>1 DEF CopyFor
<1>3. {call[e].copy : e \in {c}} = {call[c].copy}
  OBVIOUS
<1>. QED BY <1>2, <1>3

(* Nobody else creates the session of a handler, or of a row that is there *)
(* or that ended.                                                          *)
LEMMA NobodyMakes ==
  ASSUME CreatedOnce, NEW s \in Session, row[s].status # "none"
  PROVE  \A d \in Slot : ~(At(d, "insert") /\ call[d].session = s)
BY DEF CreatedOnce, Makes, Creating, At

(* A copy stays as it is unless its row or its maker moves.                *)
LEMMA CopyStays ==
  ASSUME NEW s \in Session, row'[s].status = row[s].status, row'[s].pre = row[s].pre,
         \A d \in Slot : call'[d] = call[d] \/ (~Copies(d, s) /\ ~Copies(d, s)')
  PROVE  CopyFor(s)' = CopyFor(s)
<1> DEFINE W == {d \in Slot : Copies(d, s)}
<1>1. W' = W
  BY DEF Copies, At
<1>2. \A d \in W : call'[d] = call[d]
  OBVIOUS
<1>3. {call'[d].copy : d \in W} = {call[d].copy : d \in W}
  BY <1>2
<1>4. There(s)' <=> There(s)
  BY DEF There
<1>5. CopyFor(s)' = IF There(s)' THEN row'[s].pre ELSE UNION {call'[d].copy : d \in W'}
  BY DEF CopyFor, Copies
<1>6. CopyFor(s) = IF There(s) THEN row[s].pre ELSE UNION {call[d].copy : d \in W}
  BY DEF CopyFor, Copies
<1>. QED BY <1>1, <1>3, <1>4, <1>5, <1>6

(* A step that nobody sees, and one that adds to staging.                  *)
LEMMA LifeStays ==
  ASSUME \A s \in Session : row'[s].status = row[s].status /\ CopyFor(s)' = CopyFor(s),
         staging.holds \subseteq staging'.holds
  PROVE  Life!Next
BY DEF Life!Next, Life!Write

(* The steps that concern one session.                                     *)
LEMMA LifeMoves ==
  ASSUME NEW s \in Session,
         \A x \in Session \ {s} : row'[x].status = row[x].status /\ CopyFor(x)' = CopyFor(x)
  PROVE  LET from == row[s].status
             to   == row'[s].status
             same == staging'.holds = staging.holds
         IN
         /\ from = "none" /\ to = "none" /\ CopyFor(s)' = staging.holds /\ same => Life!Next
         /\ from = "none" /\ to = "active" /\ CopyFor(s)' = CopyFor(s) /\ same => Life!Next
         /\ There(s) /\ to = "cancelling" /\ CopyFor(s)' = CopyFor(s) /\ same => Life!Next
         /\ There(s) /\ to = "saved" /\ CopyFor(s)' = {} /\ same => Life!Next
         /\ There(s) /\ to = "cancelled" /\ CopyFor(s)' = {} /\ staging'.holds = CopyFor(s)
            => Life!Next
<1> DEFINE from == row[s].status
           to == row'[s].status
           same == staging'.holds = staging.holds
           life == [x \in Session |-> row[x].status]
           copy == [x \in Session |-> CopyFor(x)]
<1>1. /\ life' = [life EXCEPT ![s] = to] /\ life[s] = from
      /\ copy' = [copy EXCEPT ![s] = CopyFor(s)'] /\ copy[s] = CopyFor(s)
  OBVIOUS
<1>2. CopyFor(s)' = CopyFor(s) => copy' = copy
  OBVIOUS
<1>3. to = from => life' = life
  OBVIOUS
<1>4. There(s) <=> from \in Life!Open
  BY DEF There, Life!Open
<1>5. from = "none" /\ to = "none" /\ CopyFor(s)' = staging.holds /\ same => Life!Next
  BY <1>1, <1>3 DEF Life!Next, Life!TakeCopy
<1>6. from = "none" /\ to = "active" /\ CopyFor(s)' = CopyFor(s) /\ same => Life!Next
  BY <1>1, <1>2 DEF Life!Next, Life!Begin
<1>7. There(s) /\ to = "cancelling" /\ CopyFor(s)' = CopyFor(s) /\ same => Life!Next
  BY <1>1, <1>2, <1>4 DEF Life!Next, Life!Stick
<1>8. There(s) /\ to = "saved" /\ CopyFor(s)' = {} /\ same => Life!Next
  BY <1>1, <1>4 DEF Life!Next, Life!Keep
<1>9. There(s) /\ to = "cancelled" /\ CopyFor(s)' = {} /\ staging'.holds = CopyFor(s)
      => Life!Next
  BY <1>1, <1>4 DEF Life!Next, Life!RollBack
<1>. QED BY <1>5, <1>6, <1>7, <1>8, <1>9

(* create_session takes its copy, and opens the session with it.           *)
LEMMA CreationIsLife ==
  ASSUME TypesOK, LocksOK, CreatedOnce, NEW c \in Slot, CreateLoad(c) \/ CreateInsert(c)
  PROVE  Life!Next
<1>0. PICK s \in Session : s = call[c].session
  BY HandlerEffects DEF Handler
<1>1. /\ s \in Session /\ \A d \in Slot \ {c} : call'[d] = call[d]
      /\ call \in [Slot -> Calls] /\ call[c] \in Calls /\ row \in [Session -> Rows]
  BY <1>0, HandlerEffects, Alone DEF Handler, TypesOK
<1>2. call[c].pc \in Creating
  BY DEF CreateLoad, CreateInsert, At, Creating
<1>3. row[s].status = "none" /\ \A d \in Slot \ {c} : ~Copies(d, s) /\ ~Copies(d, s)'
  BY <1>0, <1>1, <1>2 DEF CreatedOnce, Makes, Copies, At, Creating
<1>4. CASE CreateLoad(c)
  <2>1. /\ call'[c].pc = "insert" /\ call'[c].session = s /\ call'[c].copy = staging.holds
        /\ UNCHANGED <<row, staging>> /\ call[c].pc = "load"
    BY <1>0, <1>1, <1>4 DEF CreateLoad, At, Calls
  <2>2. ASSUME NEW x \in Session \ {s}
        PROVE  row'[x].status = row[x].status /\ CopyFor(x)' = CopyFor(x)
    <3>1. ~Copies(c, x) /\ ~Copies(c, x)'
      BY <2>1 DEF Copies, At
    <3>2. \A d \in Slot : call'[d] = call[d] \/ (~Copies(d, x) /\ ~Copies(d, x)')
      BY <1>0, <1>1, <3>1
    <3>. QED BY <2>1, <3>2, CopyStays
  <2>3. CopyFor(s)' = staging.holds
    <3>1. {d \in Slot : Copies(d, s)'} = {c}
      BY <1>3, <2>1 DEF Copies, At
    <3>2. CopyFor(s)' = UNION {call'[d].copy : d \in {d \in Slot : Copies(d, s)'}}
      BY <1>3, <2>1 DEF CopyFor, Copies, There
    <3>3. {call'[d].copy : d \in {c}} = {staging.holds}
      BY <2>1
    <3>. QED BY <3>1, <3>2, <3>3
  <2>. QED BY <1>0, <1>1, <1>3, <2>1, <2>2, <2>3, LifeMoves
<1>5. CASE CreateInsert(c)
  <2>1. /\ call[c].pc = "insert" /\ call'[c] = Idle /\ UNCHANGED staging
        /\ row'[s].status = "active" /\ row'[s].pre = call[c].copy
        /\ \A x \in Session \ {s} : row'[x] = row[x]
    BY <1>0, <1>1, <1>5 DEF CreateInsert, Answer, At
  <2>2. ASSUME NEW x \in Session \ {s}
        PROVE  row'[x].status = row[x].status /\ CopyFor(x)' = CopyFor(x)
    <3>1. ~Copies(c, x) /\ ~Copies(c, x)'
      BY <1>0, <2>1, IdleIsCall DEF Copies, At
    <3>2. \A d \in Slot : call'[d] = call[d] \/ (~Copies(d, x) /\ ~Copies(d, x)')
      BY <1>0, <1>1, <3>1
    <3>. QED BY <2>1, <3>2, CopyStays
  <2>3. CopyFor(s) = call[c].copy
    <3>1. ~There(s) /\ \A d \in Slot \ {c} : ~(At(d, "insert") /\ call[d].session = s)
      BY <1>3 DEF There, Copies
    <3>. QED BY <1>0, <1>1, <2>1, <3>1, CopyOfMaker
  <2>4. CopyFor(s)' = call[c].copy
    BY <2>1 DEF CopyFor, There
  <2>. QED BY <1>0, <1>1, <1>3, <2>1, <2>2, <2>3, <2>4, LifeMoves
<1>. QED BY <1>4, <1>5

(* Only a rollback takes anything out of staging.                          *)
LEMMA HandlerAddsOnly ==
  ASSUME TypesOK, LocksOK, NEW c \in Slot, Handler(c), ~CancelDelete(c)
  PROVE  staging.holds \subseteq staging'.holds
<1>1. CASE UNCHANGED staging
  BY <1>1
<1>2. CASE Add(call[c].session)
  BY <1>2 DEF Add
<1>. QED BY <1>1, <1>2 DEF Handler, CreateLoad, CreateInsert, Claim, SaveDelete, CancelWrite,
     TurnRead, TurnMessage, TurnCommit, TurnRegister, JobRead, JobImport, JobFails, TurnEnd,
     DeadlockVictim

LEMMA HandlerIsLife ==
  ASSUME TypesOK, LocksOK, CreatedOnce, ClaimsStand, NEW c \in Slot, Handler(c),
         call[c].pc \notin Creating
  PROVE  Life!Next
<1>0. PICK s \in Session : s = call[c].session
  BY HandlerEffects DEF Handler
<1>1. /\ s \in Session /\ \A d \in Slot \ {c} : call'[d] = call[d]
      /\ \A x \in Session \ {s} : row'[x] = row[x]
      /\ call \in [Slot -> Calls] /\ call[c] \in Calls /\ row \in [Session -> Rows] /\ row[s] \in Rows
  BY <1>0, HandlerEffects, Alone DEF TypesOK
<1>2. \A d \in Slot, x \in Session : call'[d] = call[d] \/ (~Copies(d, x) /\ ~Copies(d, x)')
  <2>1. call'[c].pc \notin Creating
    BY UseEffects
  <2>. QED BY <1>0, <1>1, <2>1 DEF Copies, At, Creating
<1>3. \A x \in Session \ {s} : row'[x].status = row[x].status /\ CopyFor(x)' = CopyFor(x)
  BY <1>0, <1>1, <1>2, CopyStays
<1>4. CASE row'[s].status = row[s].status /\ row'[s].pre = row[s].pre
           /\ ~CancelDelete(c)
  <2>1. CopyFor(s)' = CopyFor(s)
    BY <1>0, <1>1, <1>2, <1>4, CopyStays
  <2>2. staging.holds \subseteq staging'.holds
    BY <1>4, HandlerAddsOnly
  <2>. QED BY <1>3, <1>4, <2>1, <2>2, LifeStays
<1>5. CASE CancelWrite(c) /\ row'[s] = [row[s] EXCEPT !.status = "cancelling"]
  <2>1. There(s)
    BY <1>0, <1>5 DEF CancelWrite, At, ClaimsStand
  <2>2. row'[s].status = "cancelling" /\ row'[s].pre = row[s].pre
    BY <1>0, <1>1, <1>5 DEF Rows
  <2>3. CopyFor(s)' = CopyFor(s)
    BY <2>1, <2>2 DEF CopyFor, There
  <2>4. staging'.holds = staging.holds
    BY <1>5 DEF CancelWrite
  <2>. QED BY <1>0, <1>1, <1>3, <2>1, <2>2, <2>3, <2>4, LifeMoves
<1>6. CASE SaveDelete(c) \/ CancelDelete(c)
  <2>1. There(s)
    BY <1>0, <1>6 DEF SaveDelete, CancelDelete, At, ClaimsStand
  <2>2. \A d \in Slot : ~Copies(d, s)'
    <3>1. \A d \in Slot : ~Copies(d, s)
      BY <1>0, <1>1, <2>1, NobodyMakes DEF There, Copies
    <3>2. call'[c] = Idle
      BY <1>0, <1>1, <1>6 DEF SaveDelete, CancelDelete, Delete, Answer
    <3>. QED BY <1>0, <1>1, <3>1, <3>2, IdleIsCall DEF Copies, At
  <2>3. row'[s].status = IF SaveDelete(c) THEN "saved" ELSE "cancelled"
    <3>1. ~(SaveDelete(c) /\ CancelDelete(c))
      BY DEF SaveDelete, CancelDelete, At
    <3>. QED BY <1>0, <1>1, <1>6, <3>1 DEF SaveDelete, CancelDelete, Delete, NoRow
  <2>4. CopyFor(s)' = {}
    BY <2>2, <2>3 DEF CopyFor, There, Copies
  <2>5. CopyFor(s) = row[s].pre
    BY <1>0, <1>1, <2>1, CopyOfRow
  <2>6. CASE SaveDelete(c)
    <3>1. staging'.holds = staging.holds /\ row'[s].status = "saved"
      BY <2>3, <2>6 DEF SaveDelete
    <3>. QED BY <1>0, <1>1, <1>3, <2>1, <2>4, <3>1, LifeMoves
  <2>7. CASE CancelDelete(c) /\ ~SaveDelete(c)
    <3>1. staging'.holds = CopyFor(s) /\ row'[s].status = "cancelled"
      BY <1>0, <2>3, <2>5, <2>7 DEF CancelDelete
    <3>. QED BY <1>0, <1>1, <1>3, <2>1, <2>4, <3>1, LifeMoves
  <2>. QED BY <1>6, <2>6, <2>7
<1>. QED BY <1>0, <1>4, <1>5, <1>6, RowEffects

(* A restart loses the copies that no session has yet; the sweep is a      *)
(* rollback.                                                               *)
LEMMA RestartIsLife ==
  ASSUME TypesOK, CreatedOnce, Restart
  PROVE  Life!Next
<1>1. \A d \in Slot, s \in Session : ~Copies(d, s)'
  BY IdleIsCall DEF Restart, Copies, At
<1>2. ASSUME NEW s \in Session
      PROVE  CopyFor(s)' = IF row[s].status = "none" THEN {} ELSE CopyFor(s)
  <2>1. CASE There(s)
    BY <2>1 DEF CopyFor, There, Restart
  <2>2. CASE ~There(s)
    <3>1. CopyFor(s)' = {}
      BY <1>1, <2>2 DEF CopyFor, There, Copies, Restart
    <3>2. row[s].status # "none" => CopyFor(s) = {}
      BY <2>2, NobodyMakes, CopyOfNobody
    <3>. QED BY <3>1, <3>2
  <2>. QED BY <2>1, <2>2
<1>3. row' = row /\ staging' = staging
  BY DEF Restart
<1> DEFINE life == [s \in Session |-> row[s].status]
           copy == [s \in Session |-> CopyFor(s)]
<1>4. life' = life /\ copy' = [s \in Session |-> IF life[s] = "none" THEN {} ELSE copy[s]]
  BY <1>2, <1>3
<1>. QED BY <1>3, <1>4 DEF Life!Next, Life!DropCopies

LEMMA SweepIsLife ==
  ASSUME TypesOK, CreatedOnce, NEW s \in Session, Sweep(s)
  PROVE  Life!Next
<1>1. /\ There(s) /\ row[s].status # "none" /\ UNCHANGED call
      /\ row'[s].status = "cancelled" /\ staging'.holds = row[s].pre
      /\ \A x \in Session \ {s} : row'[x] = row[x]
  BY DEF TypesOK, Sweep, There, NoRow
<1>2. \A x \in Session \ {s} : row'[x].status = row[x].status /\ CopyFor(x)' = CopyFor(x)
  BY <1>1, CopyStays
<1>3. \A d \in Slot : ~Copies(d, s)'
  BY <1>1, NobodyMakes DEF Copies, At
<1>4. CopyFor(s)' = {}
  BY <1>1, <1>3 DEF CopyFor, There, Copies
<1>5. staging'.holds = CopyFor(s)
  BY <1>1, CopyOfRow
<1>. QED BY <1>1, <1>2, <1>4, <1>5, LifeMoves

LEMMA LifeStep ==
  ASSUME TypesOK, LocksOK, CreatedOnce, ClaimsStand, [Next]_vars
  PROVE  [Life!Next]_(Life!vars)
<1>1. CASE UNCHANGED vars
  <2>1. \A s \in Session : CopyFor(s)' = CopyFor(s)
    BY <1>1, CopyStays DEF vars
  <2>. QED BY <1>1, <2>1, LifeStays DEF vars
<1>2. ASSUME NEW c \in Slot, NEW s0 \in Session, NEW t \in Token,
             CreateCount(c, s0, t) \/ \E pc \in {"save", "cancel", "turn"} : Request(c, pc, s0, t)
      PROVE  Life!Next
  <2>1. /\ UNCHANGED <<row, staging>> /\ call[c].pc = "idle"
        /\ \A d \in Slot \ {c} : call'[d] = call[d]
    BY <1>2 DEF CreateCount, Request, Arrive, At, TypesOK
  <2>2. call'[c].pc # "insert"
    <3>1. \A pc : Arrive(c, pc, s0, t) => call'[c].pc = pc
      BY DEF Arrive, Idle, TypesOK
    <3>. QED BY <1>2, <3>1 DEF CreateCount, Request
  <2>3. \A d \in Slot, s \in Session : call'[d] = call[d] \/ (~Copies(d, s) /\ ~Copies(d, s)')
    BY <2>1, <2>2 DEF Copies, At
  <2>. QED BY <2>1, <2>3, CopyStays, LifeStays
<1>3. ASSUME NEW c \in Slot, Handler(c) PROVE Life!Next
  <2>1. CASE call[c].pc \notin Creating
    BY <1>3, <2>1, HandlerIsLife
  <2>2. CASE call[c].pc \in Creating
    <3>1. CreateLoad(c) \/ CreateInsert(c)
      BY <1>3, <2>2 DEF Handler, Claim, SaveDelete, CancelWrite, CancelDelete,
         TurnRead, TurnMessage, TurnCommit, TurnRegister, JobRead, JobImport, JobFails, TurnEnd,
         DeadlockVictim, Deadlocked, At, Creating
    <3>. QED BY <3>1, CreationIsLife
  <2>. QED BY <2>1, <2>2
<1>4. CASE Edit
  <2>1. UNCHANGED <<row, call>> /\ staging.holds \subseteq staging'.holds
    BY <1>4 DEF Edit, Add
  <2>. QED BY <2>1, CopyStays, LifeStays
<1>. QED BY <1>1, <1>2, <1>3, <1>4, RestartIsLife, SweepIsLife DEF Next

LEMMA LifeBegins == Init => Life!Init
<1> SUFFICES ASSUME Init PROVE Life!Init
  OBVIOUS
<1>1. \A s \in Session : row[s].status = "none" /\ CopyFor(s) = {}
  BY IdleIsCall DEF Init, NoRow, CopyFor, There, At
<1>. QED BY <1>1 DEF Init, Life!Init

(* Saves, cancels, deadlocks, crashes and sweeps in any order: a session   *)
(* takes one copy of staging, is opened with it, and ends once; only the   *)
(* end by a rollback takes anything out of staging, and puts back exactly  *)
(* that copy.                                                              *)
THEOREM LifeIsImplemented == Spec => ImplementsLife
<1>1. TypesOK /\ LocksOK /\ CreatedOnce /\ ClaimsStand /\ [Next]_vars => [Life!Next]_(Life!vars)
  BY LifeStep
<1>. QED BY <1>1, LifeBegins, TypesInductive, OneInductive, ClaimsInductive, PTL
     DEF Spec, ImplementsLife, Life!Spec
=============================================================================
