------------------------- MODULE SessionCreation_proofs -------------------------
(***************************************************************************)
(* Proofs about SessionCreation, for any number of calls, keys and terms.  *)
(***************************************************************************)
EXTENDS SessionCreation, TLAPS

(* A write of FundingStore.update to one row: what it does to each column. *)
LEMMA UpdateColumns ==
  ASSUME db \in [Requests -> Row],
         NEW id \in Requests, NEW to \in FUNDING_STATES,
         NEW release \in BOOLEAN, NEW opened \in BOOLEAN,
         Update(id, to, release, opened)
  PROVE  /\ db' \in [Requests -> Row]
         /\ CanMove(db[id].status, to)
         /\ \A r \in Requests \ {id} : db'[r] = db[r]
         /\ db'[id].status = to
         /\ db'[id].ref = IF release THEN None ELSE db[id].ref
         /\ db'[id].session = (db[id].session \/ opened)
  BY DEF Update, Row

(* The same, of an update that keeps the key. *)
LEMMA KeepingColumns ==
  ASSUME db \in [Requests -> Row], NEW id \in Requests, NEW to \in FUNDING_STATES,
         NEW opened \in BOOLEAN, Update(id, to, FALSE, opened)
  PROVE  /\ \A q \in Requests \ {id} : db'[q] = db[q]
         /\ db'[id].status = to
         /\ db'[id].ref = db[id].ref
         /\ db'[id].session = (db[id].session \/ opened)
         /\ CanMove(db[id].status, to)
<1>1. db[id] \in Row
  OBVIOUS
<1>2. db' = [db EXCEPT ![id] = [status    |-> to,
                               ref       |-> db[id].ref,
                               session   |-> db[id].session \/ opened,
                               cancelled |-> db[id].cancelled]]
  BY DEF Update
<1>3. db'[id] = [status    |-> to,
                 ref       |-> db[id].ref,
                 session   |-> db[id].session \/ opened,
                 cancelled |-> db[id].cancelled]
  BY <1>2
<1>4. \A q \in Requests \ {id} : db'[q] = db[q]
  BY <1>2
<1>5. CanMove(db[id].status, to)
  BY DEF Update
<1> QED BY <1>3, <1>4, <1>5

LEMMA NewRowType ==
  ASSUME NEW status \in FUNDING_STATES, NEW ref \in Keys \cup {None}
  PROVE  NewRow(status, ref) \in Row
  BY DEF NewRow, Row

(* What the handler says of an earlier request under its key. *)
LEMMA JudgeIsACode ==
  ASSUME NEW row \in Row, NEW same \in BOOLEAN, NEW closed \in BOOLEAN
  PROVE  Judge(row, same, closed) \in Codes \ {"RAIL_REFUSED"}
  BY DEF Judge, Concluded, Replay, Codes, TERMINAL_STATES

LEMMA ReplyType ==
  ASSUME TypeOK, NEW r \in Requests, NEW code \in Codes,
         NEW id \in Requests \cup {None}, Reply(r, code, id)
  PROVE  /\ pc' \in [Requests -> Stages]
         /\ answer' \in [Requests -> [code : Codes, about : Requests \cup {None}]]
  BY DEF TypeOK, Reply, Goto, Stages

LEMMA GotoType ==
  ASSUME TypeOK, NEW r \in Requests, NEW stage \in Stages, Goto(r, stage)
  PROVE  pc' \in [Requests -> Stages]
  BY DEF TypeOK, Goto
-----------------------------------------------------------------------------
(* Type correctness *)

LEMMA InitType == Init => TypeOK
  BY DEF Init, TypeOK, Row, NothingFound, NoRow, Stages, Codes, Verdicts

LEMMA HandlerType ==
  ASSUME TypeOK, NEW r \in Requests, Handler(r)
  PROVE  TypeOK'
<1> USE DEF TypeOK
<1>1. CASE Refuse(r)
  <2>1. NewRow("refused", None) \in Row
    BY NewRowType DEF FUNDING_STATES
  <2>2. db' \in [Requests -> Row]
    BY <1>1, <2>1 DEF Refuse
  <2> QED BY <1>1, <2>2, ReplyType DEF Refuse, Codes
<1>2. CASE Accept(r)
  BY <1>2, GotoType DEF Accept, Stages
<1>3. CASE ReserveInserts(r)
  <2>1. NewRow("created", call[r].key) \in Row
    BY NewRowType DEF FUNDING_STATES
  <2>2. db' \in [Requests -> Row]
    BY <1>3, <2>1 DEF ReserveInserts
  <2> QED BY <1>3, <2>2, GotoType DEF ReserveInserts, Stages
<1>4. CASE ReserveConflicts(r)
  BY <1>4, GotoType DEF ReserveConflicts, Stages
<1>5. CASE ReadFinds(r)
  BY <1>5, GotoType DEF ReadFinds, Holders, Stages
<1>6. CASE ReadMisses(r)
  BY <1>6, GotoType, ReplyType DEF ReadMisses, Stages, Codes
<1>7. CASE ReserveFaults(r)
  <2>1. NewRow("created", call[r].key) \in Row
    BY NewRowType DEF FUNDING_STATES
  <2>2. db' \in [Requests -> Row]
    BY <1>7, <2>1 DEF ReserveFaults
  <2> QED BY <1>7, <2>2, ReplyType DEF ReserveFaults, Codes
<1>8. CASE AnswerExisting(r)
  <2>1. NothingFound \in [id : Requests \cup {None}, row : Row]
    BY DEF NothingFound, NoRow, Row
  <2>2. found' \in [Requests -> [id : Requests \cup {None}, row : Row]]
    BY <1>8, <2>1 DEF AnswerExisting
  <2> QED BY <1>8, <2>2, ReplyType, JudgeIsACode DEF AnswerExisting
<1>9. CASE CallRail(r)
  BY <1>9, GotoType DEF CallRail, Stages
<1>10. CASE RailAnswersOpened(r) \/ RailAnswersDeclined(r) \/ RailAnswerLost(r)
  BY <1>10, GotoType DEF RailAnswersOpened, RailAnswersDeclined, RailAnswerLost, Stages
<1>11. CASE CloseRefused(r)
  BY <1>11, ReplyType, UpdateColumns DEF CloseRefused, Codes, FUNDING_STATES
<1>12. CASE CloseUnsure(r)
  BY <1>12, ReplyType, UpdateColumns DEF CloseUnsure, Codes, FUNDING_STATES
<1>13. CASE Record(r)
  BY <1>13, GotoType, UpdateColumns DEF Record, Stages, FUNDING_STATES
<1>14. CASE RecordFails(r)
  BY <1>14, ReplyType, UpdateColumns DEF RecordFails, Codes, FUNDING_STATES
<1>15. CASE Respond(r)
  BY <1>15, ReplyType DEF Respond, Codes
<1>16. CASE Die(r)
  <2>1. NothingFound \in [id : Requests \cup {None}, row : Row]
    BY DEF NothingFound, NoRow, Row
  <2>2. found' \in [Requests -> [id : Requests \cup {None}, row : Row]]
    BY <1>16, <2>1 DEF Die
  <2> QED BY <1>16, <2>2, GotoType DEF Die, Stages
<1> QED
  BY <1>1, <1>2, <1>3, <1>4, <1>5, <1>6, <1>7, <1>8, <1>9, <1>10, <1>11, <1>12, <1>13,
     <1>14, <1>15, <1>16 DEF Handler

LEMMA OthersType ==
  ASSUME TypeOK, NEW id \in Requests, Others(id)
  PROVE  TypeOK'
<1> USE DEF TypeOK, handlerVars
<1>1. CASE Cancel(id)
  <2>1. db[id] \in Row
    OBVIOUS
  <2>2. [db[id] EXCEPT !.cancelled = TRUE] \in Row
    BY <2>1 DEF Row
  <2>3. db' = [db EXCEPT ![id] = [db[id] EXCEPT !.cancelled = TRUE]]
    BY <1>1 DEF Cancel
  <2>4. db' \in [Requests -> Row]
    BY <2>2, <2>3
  <2> QED BY <1>1, <2>4 DEF Cancel
<1>2. CASE WorkerDecides(id)
  <2>1. Conclusions(id) \subseteq Verdicts
    BY DEF Conclusions, Verdicts
  <2> QED BY <1>2, <2>1 DEF WorkerDecides
<1>3. CASE WorkerWrites(id)
  <2>1. verdict[id] \in FUNDING_STATES
    BY <1>3 DEF WorkerWrites, Verdicts, FUNDING_STATES
  <2> QED BY <1>3, <2>1, UpdateColumns DEF WorkerWrites, Verdicts
<1>4. CASE WorkerLoses(id)
  BY <1>4 DEF WorkerLoses, Verdicts
<1>5. CASE Prune(id)
  BY <1>5 DEF Prune, NoRow, Row
<1> QED BY <1>1, <1>2, <1>3, <1>4, <1>5 DEF Others

LEMMA ProviderType ==
  ASSUME TypeOK, NEW r \in Requests, Provider(r)
  PROVE  TypeOK'
  BY DEF TypeOK, Provider, RailServes, PageCloses, Pay, PaymentEnds, Ages, handlerVars

LEMMA StepType == TypeOK /\ [Next]_vars => TypeOK'
<1>1. TypeOK /\ UNCHANGED vars => TypeOK'
  BY DEF TypeOK, vars
<1> QED BY <1>1, HandlerType, OthersType, ProviderType DEF Next

(* Every variable keeps its type, for any calls, keys and terms. *)
THEOREM TypeCorrect == Spec => []TypeOK
  BY InitType, StepType, PTL DEF Spec
-----------------------------------------------------------------------------
(* One surface for one key *)

LEMMA InitSurface == Init => SurfaceInv
  BY ConstantsAssumption
  DEF Init, SurfaceInv, FreshUntilReserved, KeyHeldOnce, KeyIsTheCalls, KeylessRows,
      CallHoldsKey, DeclinedByTheRail, OpenedIsRecorded, NoRow, Outstanding

(* A step of a handler that touches neither the table nor the provider     *)
(* keeps the invariant when the stage it enters claims no more of them     *)
(* than the one it leaves.                                                 *)
LEMMA HandlerMoves ==
  ASSUME TypeOK, SurfaceInv, NEW r \in Requests,
         UNCHANGED <<call, db, rail>>,
         \A q \in Requests \ {r} : pc'[q] = pc[q] /\ answer'[q] = answer[q],
         pc'[r] \in {"reserve", "read", "retry", "reread", "found"} =>
           rail[r] = "idle" /\ db[r] = NoRow,
         pc'[r] # "idle", pc'[r] # "call",
         pc'[r] \in {"calling", "opened", "unsure", "respond"} => db[r].ref = call[r].key,
         pc'[r] = "declined" \/ answer'[r].code = "RAIL_REFUSED" => rail[r] = "declined"
  PROVE  SurfaceInv'
  BY DEF SurfaceInv, FreshUntilReserved, KeyHeldOnce, KeyIsTheCalls, KeylessRows,
         CallHoldsKey, DeclinedByTheRail, OpenedIsRecorded, Outstanding

(* A reservation by a call that holds nothing yet, of a key nobody holds.  *)
LEMMA Reservation ==
  ASSUME TypeOK, SurfaceInv, NEW r \in Requests,
         UNCHANGED <<call, rail>>,
         Inserting(r), Holders(call[r].key) = {},
         db' = [db EXCEPT ![r] = NewRow("created", call[r].key)],
         \A q \in Requests \ {r} : pc'[q] = pc[q] /\ answer'[q] = answer[q],
         pc'[r] \in {"call", "done"},
         answer'[r].code # "RAIL_REFUSED" \/ answer' = answer
  PROVE  SurfaceInv'
<1>1. db'[r] = NewRow("created", call[r].key) /\ \A q \in Requests \ {r} : db'[q] = db[q]
  BY DEF TypeOK
<1>2. rail[r] = "idle"
  BY DEF SurfaceInv, FreshUntilReserved, Inserting
<1>3. call[r].key # None
  BY ConstantsAssumption DEF TypeOK
<1>4. \A q \in Requests : db[q].ref # call[r].key
  BY DEF Holders
<1>5. FreshUntilReserved'
  BY <1>1, <1>2 DEF SurfaceInv, FreshUntilReserved
<1>6. KeyHeldOnce'
  BY <1>1, <1>4 DEF SurfaceInv, KeyHeldOnce, NewRow
<1>7. KeyIsTheCalls' /\ KeylessRows' /\ OpenedIsRecorded'
  BY <1>1 DEF SurfaceInv, KeyIsTheCalls, KeylessRows, OpenedIsRecorded, NewRow
<1>8. CallHoldsKey'
  BY <1>1 DEF SurfaceInv, CallHoldsKey, NewRow, Outstanding
<1>9. DeclinedByTheRail'
  BY DEF SurfaceInv, DeclinedByTheRail, Inserting
<1> QED BY <1>5, <1>6, <1>7, <1>8, <1>9 DEF SurfaceInv

(* An update that keeps the key, by a handler or by the worker. *)
LEMMA KeepingUpdate ==
  ASSUME TypeOK, SurfaceInv, NEW id \in Requests, NEW to \in FUNDING_STATES \ {"refused"},
         NEW opened \in BOOLEAN, opened \/ to # "session_opened",
         UNCHANGED <<call, rail>>,
         Update(id, to, FALSE, opened),
         \A q \in Requests \ {id} : pc'[q] = pc[q] /\ answer'[q] = answer[q],
         \/ pc'[id] = pc[id] /\ answer'[id] = answer[id]
         \/ /\ pc[id] \in {"opened", "unsure"} /\ pc'[id] \in {"respond", "done"}
            /\ answer'[id].code # "RAIL_REFUSED" \/ answer' = answer
  PROVE  SurfaceInv'
<1>1. /\ \A q \in Requests \ {id} : db'[q] = db[q]
      /\ db'[id].status = to
      /\ db'[id].ref = db[id].ref
      /\ db'[id].session = (db[id].session \/ opened)
      /\ CanMove(db[id].status, to)
  <2>1. db \in [Requests -> Row] /\ to \in FUNDING_STATES
    BY DEF TypeOK
  <2> QED BY <2>1, KeepingColumns
<1>2. \A q \in Requests : db'[q].ref = db[q].ref
  BY <1>1
<1>3. to \notin {"absent", "created", "refused"}
  BY <1>1 DEF CanMove, TRANSITIONS
<1>4. KeyHeldOnce' /\ KeyIsTheCalls'
  BY <1>2 DEF SurfaceInv, KeyHeldOnce, KeyIsTheCalls
<1>5. FreshUntilReserved'
  <2>1. db[id] # NoRow
    BY <1>1 DEF NoRow, CanMove, TRANSITIONS
  <2> QED BY <1>1, <2>1 DEF SurfaceInv, FreshUntilReserved
<1>6. KeylessRows'
  BY <1>1, <1>3 DEF SurfaceInv, KeylessRows
<1>7. CallHoldsKey'
  BY <1>2 DEF SurfaceInv, CallHoldsKey, Outstanding
<1>8. DeclinedByTheRail'
  BY DEF SurfaceInv, DeclinedByTheRail
<1>9. OpenedIsRecorded'
  BY <1>1, <1>3 DEF SurfaceInv, OpenedIsRecorded, CanMove, TRANSITIONS
<1> QED BY <1>4, <1>5, <1>6, <1>7, <1>8, <1>9 DEF SurfaceInv

(* What Reply and Goto leave alone. *)
LEMMA ReplyEffect ==
  ASSUME TypeOK, NEW r \in Requests, NEW code, NEW id, Reply(r, code, id)
  PROVE  /\ pc'[r] = "done" /\ answer'[r].code = code
         /\ \A q \in Requests \ {r} : pc'[q] = pc[q] /\ answer'[q] = answer[q]
  BY DEF TypeOK, Reply, Goto

LEMMA GotoEffect ==
  ASSUME TypeOK, NEW r \in Requests, NEW stage, Goto(r, stage), UNCHANGED answer
  PROVE  /\ pc'[r] = stage /\ answer' = answer
         /\ \A q \in Requests \ {r} : pc'[q] = pc[q] /\ answer'[q] = answer[q]
  BY DEF TypeOK, Goto

LEMMA HandlerSurface ==
  ASSUME TypeOK, SurfaceInv, NEW r \in Requests, Handler(r)
  PROVE  SurfaceInv'
<1> USE DEF SurfaceInv
<1>1. CASE Refuse(r)
  <2>1. rail[r] = "idle" /\ db[r].ref = None
    BY <1>1 DEF Refuse, FreshUntilReserved, NoRow
  <2>2. /\ pc'[r] = "done" /\ answer'[r].code = "REFUSED"
        /\ \A q \in Requests \ {r} : pc'[q] = pc[q] /\ answer'[q] = answer[q]
        /\ UNCHANGED <<call, rail>>
    BY <1>1, ReplyEffect DEF Refuse
  <2>3. CASE db' = db
    BY <2>1, <2>2, <2>3, HandlerMoves
  <2>4. CASE db' = [db EXCEPT ![r] = NewRow("refused", None)]
    <3>1. db'[r] = NewRow("refused", None) /\ \A q \in Requests \ {r} : db'[q] = db[q]
      BY <2>4 DEF TypeOK
    <3>2. \A q \in Requests : db'[q].ref = db[q].ref
      BY <2>1, <3>1 DEF NewRow
    <3>3. FreshUntilReserved' /\ KeyHeldOnce' /\ KeyIsTheCalls'
      BY <2>2, <3>1, <3>2 DEF FreshUntilReserved, KeyHeldOnce, KeyIsTheCalls
    <3>4. KeylessRows' /\ OpenedIsRecorded'
      BY <3>1 DEF KeylessRows, OpenedIsRecorded, NewRow
    <3>5. CallHoldsKey' /\ DeclinedByTheRail'
      BY <2>2, <3>2 DEF CallHoldsKey, DeclinedByTheRail, Outstanding
    <3> QED BY <3>3, <3>4, <3>5
  <2> QED BY <1>1, <2>3, <2>4 DEF Refuse
<1>2. CASE Accept(r)
  BY <1>2, GotoEffect, HandlerMoves DEF Accept, FreshUntilReserved, DeclinedByTheRail
<1>3. CASE ReserveInserts(r)
  BY <1>3, GotoEffect, Reservation DEF ReserveInserts
<1>4. CASE ReserveConflicts(r)
  BY <1>4, GotoEffect, HandlerMoves
  DEF ReserveConflicts, Inserting, FreshUntilReserved, DeclinedByTheRail
<1>5. CASE ReadFinds(r)
  BY <1>5, GotoEffect, HandlerMoves DEF ReadFinds, Reading, FreshUntilReserved, DeclinedByTheRail
<1>6. CASE ReadMisses(r)
  <2>1. CASE pc[r] = "read"
    BY <1>6, <2>1, GotoEffect, HandlerMoves DEF ReadMisses, FreshUntilReserved, DeclinedByTheRail
  <2>2. CASE pc[r] = "reread"
    BY <1>6, <2>2, ReplyEffect, HandlerMoves DEF ReadMisses
  <2> QED BY <1>6, <2>1, <2>2 DEF ReadMisses, Reading
<1>7. CASE ReserveFaults(r)
  <2>1. /\ pc'[r] = "done" /\ answer'[r].code = "FAULT"
        /\ \A q \in Requests \ {r} : pc'[q] = pc[q] /\ answer'[q] = answer[q]
        /\ UNCHANGED <<call, rail>>
    BY <1>7, ReplyEffect DEF ReserveFaults
  <2>2. CASE UNCHANGED db
    BY <2>1, <2>2, HandlerMoves
  <2>3. CASE ~UNCHANGED db
    BY <1>7, <2>1, <2>3, Reservation DEF ReserveFaults
  <2> QED BY <2>2, <2>3
<1>8. CASE AnswerExisting(r)
  <2>1. PICK code \in Codes \ {"RAIL_REFUSED"} : Reply(r, code, found[r].id)
    BY <1>8, JudgeIsACode DEF AnswerExisting, TypeOK
  <2> QED BY <1>8, <2>1, ReplyEffect, HandlerMoves DEF AnswerExisting
<1>9. CASE CallRail(r)
  <2>1. /\ pc[r] = "call" /\ rail[r] = "idle" /\ db[r].ref = call[r].key
        /\ pc'[r] = "calling" /\ rail'[r] = "sent" /\ UNCHANGED <<call, db, answer>>
        /\ \A q \in Requests \ {r} : pc'[q] = pc[q] /\ rail'[q] = rail[q]
    BY <1>9, GotoEffect DEF CallRail, FreshUntilReserved, CallHoldsKey, TypeOK
  <2> QED BY <2>1 DEF FreshUntilReserved, KeyHeldOnce, KeyIsTheCalls, KeylessRows,
             CallHoldsKey, DeclinedByTheRail, OpenedIsRecorded, Outstanding
<1>10. CASE RailAnswersOpened(r) \/ RailAnswersDeclined(r) \/ RailAnswerLost(r)
  BY <1>10, GotoEffect, HandlerMoves
  DEF RailAnswersOpened, RailAnswersDeclined, RailAnswerLost, CallHoldsKey, DeclinedByTheRail
<1>11. CASE CloseRefused(r)
  <2>1. /\ rail[r] = "declined" /\ UNCHANGED <<call, rail>>
        /\ pc'[r] = "done" /\ answer'[r].code = "RAIL_REFUSED"
        /\ \A q \in Requests \ {r} : pc'[q] = pc[q] /\ answer'[q] = answer[q]
    BY <1>11, ReplyEffect DEF CloseRefused, DeclinedByTheRail
  <2>2. CASE UNCHANGED db
    BY <2>1, <2>2, HandlerMoves
  <2>3. CASE Update(r, "refused", TRUE, FALSE)
    <3>1. /\ \A q \in Requests \ {r} : db'[q] = db[q]
          /\ db'[r].status = "refused" /\ db'[r].ref = None
          /\ CanMove(db[r].status, "refused") /\ (db'[r].session => db[r].session)
      <4>1. db \in [Requests -> Row] /\ "refused" \in FUNDING_STATES
            /\ TRUE \in BOOLEAN /\ FALSE \in BOOLEAN
        BY DEF TypeOK, FUNDING_STATES
      <4> QED BY <2>3, <4>1, UpdateColumns
    <3>2. FreshUntilReserved' /\ DeclinedByTheRail'
      BY <2>1, <3>1 DEF FreshUntilReserved, DeclinedByTheRail
    <3>3. KeyHeldOnce' /\ KeyIsTheCalls' /\ KeylessRows'
      BY <2>1, <3>1 DEF KeyHeldOnce, KeyIsTheCalls, KeylessRows
    <3>4. CallHoldsKey'
      BY <2>1, <3>1 DEF CallHoldsKey, Outstanding
    <3>5. ~db'[r].session
      BY <3>1 DEF CanMove, TRANSITIONS, OpenedIsRecorded
    <3>6. OpenedIsRecorded'
      BY <3>1, <3>5 DEF OpenedIsRecorded
    <3> QED BY <3>2, <3>3, <3>4, <3>6
  <2> QED BY <1>11, <2>2, <2>3 DEF CloseRefused
<1>12. CASE CloseUnsure(r)
  <2>1. /\ pc[r] = "unsure" /\ pc'[r] = "done" /\ answer'[r].code = "PROVIDER_TIMEOUT"
        /\ \A q \in Requests \ {r} : pc'[q] = pc[q] /\ answer'[q] = answer[q]
        /\ UNCHANGED <<call, rail>>
    BY <1>12, ReplyEffect DEF CloseUnsure
  <2>2. CASE UNCHANGED db
    BY <2>1, <2>2, HandlerMoves
  <2>3. CASE Update(r, "unobserved", FALSE, FALSE)
    BY <2>1, <2>3, KeepingUpdate DEF FUNDING_STATES
  <2> QED BY <1>12, <2>2, <2>3 DEF CloseUnsure
<1>13. CASE Record(r)
  <2>1. /\ pc[r] = "opened" /\ pc'[r] = "respond" /\ answer' = answer
        /\ \A q \in Requests \ {r} : pc'[q] = pc[q] /\ answer'[q] = answer[q]
        /\ UNCHANGED <<call, rail>>
    BY <1>13, GotoEffect DEF Record
  <2> QED BY <1>13, <2>1, KeepingUpdate DEF Record, FUNDING_STATES
<1>14. CASE RecordFails(r)
  <2>1. /\ pc[r] = "opened" /\ pc'[r] = "done" /\ answer'[r].code = "FAULT"
        /\ \A q \in Requests \ {r} : pc'[q] = pc[q] /\ answer'[q] = answer[q]
        /\ UNCHANGED <<call, rail>>
    BY <1>14, ReplyEffect DEF RecordFails
  <2>2. CASE UNCHANGED db
    BY <2>1, <2>2, HandlerMoves
  <2>3. CASE Update(r, "session_opened", FALSE, TRUE)
    BY <2>1, <2>3, KeepingUpdate DEF FUNDING_STATES
  <2> QED BY <1>14, <2>2, <2>3 DEF RecordFails
<1>15. CASE Respond(r)
  BY <1>15, ReplyEffect, HandlerMoves DEF Respond
<1>16. CASE Die(r)
  BY <1>16, GotoEffect, HandlerMoves DEF Die, DeclinedByTheRail
<1> QED
  BY <1>1, <1>2, <1>3, <1>4, <1>5, <1>6, <1>7, <1>8, <1>9, <1>10, <1>11, <1>12, <1>13,
     <1>14, <1>15, <1>16 DEF Handler

LEMMA OthersSurface ==
  ASSUME TypeOK, SurfaceInv, NEW id \in Requests, Others(id)
  PROVE  SurfaceInv'
<1> USE DEF SurfaceInv, handlerVars
<1>1. CASE Cancel(id)
  <2>1. /\ UNCHANGED <<call, pc, rail, answer>>
        /\ \A q \in Requests : /\ db'[q].status = db[q].status /\ db'[q].ref = db[q].ref
                               /\ db'[q].session = db[q].session
    BY <1>1 DEF Cancel, TypeOK, Row
  <2>2. \A q \in Requests : db[q] = NoRow => db'[q] = NoRow
    <3>1. db[id] # NoRow
      BY <1>1 DEF Cancel, NoRow
    <3>2. \A q \in Requests \ {id} : db'[q] = db[q]
      BY <1>1 DEF Cancel, TypeOK
    <3> QED BY <3>1, <3>2
  <2> QED BY <2>1, <2>2 DEF FreshUntilReserved, KeyHeldOnce, KeyIsTheCalls, KeylessRows,
             CallHoldsKey, DeclinedByTheRail, OpenedIsRecorded, Outstanding
<1>2. CASE WorkerDecides(id) \/ WorkerLoses(id)
  BY <1>2 DEF WorkerDecides, WorkerLoses, FreshUntilReserved, KeyHeldOnce, KeyIsTheCalls,
     KeylessRows, CallHoldsKey, DeclinedByTheRail, OpenedIsRecorded, Outstanding
<1>3. CASE WorkerWrites(id)
  <2>1. CASE UNCHANGED db
    BY <1>3, <2>1 DEF WorkerWrites, FreshUntilReserved, KeyHeldOnce, KeyIsTheCalls,
       KeylessRows, CallHoldsKey, DeclinedByTheRail, OpenedIsRecorded, Outstanding
  <2>2. CASE Update(id, verdict[id], FALSE, FALSE)
    <3>1. verdict[id] \in FUNDING_STATES \ {"refused"} /\ verdict[id] # "session_opened"
      BY <1>3 DEF WorkerWrites, TypeOK, Verdicts, FUNDING_STATES
    <3>2. UNCHANGED <<call, pc, rail, answer>>
      BY <1>3 DEF WorkerWrites
    <3> QED BY <2>2, <3>1, <3>2, KeepingUpdate
  <2> QED BY <1>3, <2>1, <2>2 DEF WorkerWrites
<1>4. CASE Prune(id)
  <2>1. /\ UNCHANGED <<call, pc, rail, answer>>
        /\ db[id].ref = None /\ db'[id] = NoRow
        /\ \A q \in Requests \ {id} : db'[q] = db[q]
    BY <1>4 DEF Prune, TypeOK, KeylessRows
  <2>2. \A q \in Requests : db'[q].ref = db[q].ref
    BY <2>1 DEF NoRow
  <2>3. KeylessRows' /\ OpenedIsRecorded'
    BY <2>1 DEF KeylessRows, OpenedIsRecorded, NoRow
  <2> QED BY <2>1, <2>2, <2>3 DEF FreshUntilReserved, KeyHeldOnce, KeyIsTheCalls,
             CallHoldsKey, DeclinedByTheRail, Outstanding
<1> QED BY <1>1, <1>2, <1>3, <1>4 DEF Others

(* The provider only ever moves on a call it was sent. *)
LEMMA ProviderSurface ==
  ASSUME TypeOK, SurfaceInv, NEW r \in Requests, Provider(r)
  PROVE  SurfaceInv'
<1>1. /\ UNCHANGED <<call, pc, db, answer>>
      /\ \A q \in Requests : rail'[q] = rail[q] \/ rail[q] \in {"sent", "opened"}
      /\ \A q \in Requests : rail[q] \in {"idle", "declined"} => rail'[q] = rail[q]
  BY DEF Provider, RailServes, PageCloses, Pay, PaymentEnds, Ages, handlerVars, TypeOK
<1> QED BY <1>1 DEF SurfaceInv, FreshUntilReserved, KeyHeldOnce, KeyIsTheCalls, KeylessRows,
           CallHoldsKey, DeclinedByTheRail, OpenedIsRecorded, Outstanding

LEMMA StepSurface == TypeOK /\ SurfaceInv /\ [Next]_vars => SurfaceInv'
<1>1. TypeOK /\ SurfaceInv /\ UNCHANGED vars => SurfaceInv'
  BY DEF vars, SurfaceInv, FreshUntilReserved, KeyHeldOnce, KeyIsTheCalls, KeylessRows,
         CallHoldsKey, DeclinedByTheRail, OpenedIsRecorded, Outstanding
<1> QED BY <1>1, HandlerSurface, OthersSurface, ProviderSurface DEF Next

(* The inductive invariant of the specification. *)
THEOREM SurfaceInvariant == Spec => [](TypeOK /\ SurfaceInv)
  BY InitType, StepType, InitSurface, StepSurface, PTL DEF Spec

(* Two calls under one key are never both outstanding at the provider,     *)
(* however many calls, keys, retries, crashes and lost answers there are.  *)
THEOREM OneSurface == Spec => []OneSurfacePerKey
<1>1. TypeOK /\ SurfaceInv => OneSurfacePerKey
  BY ConstantsAssumption DEF TypeOK, SurfaceInv, CallHoldsKey, KeyHeldOnce, OneSurfacePerKey
<1> QED BY <1>1, SurfaceInvariant, PTL

(* A surface no write recorded is on a row that keeps the key and says     *)
(* `created' or `unobserved'.                                              *)
THEOREM OrphansStayUnknown == Spec => []OrphanStaysUnknown
<1>1. TypeOK /\ SurfaceInv => OrphanStaysUnknown
  BY ConstantsAssumption
  DEF TypeOK, Row, FUNDING_STATES, SurfaceInv, CallHoldsKey, KeylessRows, OpenedIsRecorded,
      OrphanStaysUnknown
<1> QED BY <1>1, SurfaceInvariant, PTL

(* A refused row, or a caller told the rail refused, has no surface. *)
THEOREM RefusalsAreReal == Spec => []RefusedHasNoSurface
<1>1. TypeOK /\ SurfaceInv => RefusedHasNoSurface
  BY ConstantsAssumption
  DEF TypeOK, SurfaceInv, CallHoldsKey, KeylessRows, DeclinedByTheRail, RefusedHasNoSurface,
      Outstanding
<1> QED BY <1>1, SurfaceInvariant, PTL
-----------------------------------------------------------------------------
(* What a step may do to a row *)

(* A key leaves a row only when the provider declined the row's call. *)
LEMMA StepReleases ==
  ASSUME TypeOK, SurfaceInv, Next,
         NEW id \in Requests, db[id].ref # None, db'[id].ref # db[id].ref
  PROVE  rail[id] = "declined"
<1>1. PICK r \in Requests : Handler(r) \/ Others(r) \/ Provider(r)
  BY DEF Next
<1>2. ASSUME NEW to \in FUNDING_STATES, NEW opened \in BOOLEAN,
             Update(r, to, FALSE, opened)
      PROVE  FALSE
  <2>1. db \in [Requests -> Row]
    BY DEF TypeOK
  <2>2. db'[r].ref = db[r].ref /\ \A q \in Requests \ {r} : db'[q] = db[q]
    BY <1>2, <2>1, KeepingColumns
  <2> QED BY <2>2
<1>3. ASSUME NEW status, NEW ref, db[r] = NoRow, db' = [db EXCEPT ![r] = NewRow(status, ref)]
      PROVE  FALSE
  BY <1>3 DEF TypeOK, NoRow
<1>4. CASE Handler(r)
  <2>1. CASE Refuse(r)
    BY <1>3, <2>1 DEF Refuse, SurfaceInv, FreshUntilReserved
  <2>2. CASE ReserveInserts(r) \/ ReserveFaults(r)
    BY <1>3, <2>2 DEF ReserveInserts, ReserveFaults, Inserting, SurfaceInv, FreshUntilReserved
  <2>3. CASE CloseRefused(r)
    <3>1. rail[r] = "declined"
      BY <2>3 DEF CloseRefused, SurfaceInv, DeclinedByTheRail
    <3>2. id = r
      BY <2>3 DEF CloseRefused, Update, TypeOK
    <3> QED BY <3>1, <3>2
  <2>4. CASE CloseUnsure(r) \/ Record(r) \/ RecordFails(r)
    <3>1. "unobserved" \in FUNDING_STATES /\ "session_opened" \in FUNDING_STATES
      BY DEF FUNDING_STATES
    <3> QED BY <1>2, <2>4, <3>1 DEF CloseUnsure, Record, RecordFails
  <2>5. CASE UNCHANGED db
    BY <2>5
  <2> QED BY <1>4, <2>1, <2>2, <2>3, <2>4, <2>5 DEF Handler, Accept, ReserveConflicts, ReadFinds,
             ReadMisses, AnswerExisting, CallRail, RailAnswersOpened, RailAnswersDeclined,
             RailAnswerLost, Respond, Die
<1>5. CASE Others(r)
  <2>1. CASE Cancel(r)
    BY <2>1 DEF Cancel, TypeOK, Row
  <2>2. CASE WorkerWrites(r)
    <3>1. verdict[r] \in FUNDING_STATES
      BY <2>2 DEF WorkerWrites, TypeOK, Verdicts, FUNDING_STATES
    <3> QED BY <1>2, <2>2, <3>1 DEF WorkerWrites
  <2>3. CASE Prune(r)
    <3>1. db[r].ref = None
      BY <2>3 DEF Prune, SurfaceInv, KeylessRows
    <3> QED BY <2>3, <3>1 DEF Prune, TypeOK
  <2> QED BY <1>5, <2>1, <2>2, <2>3 DEF Others, WorkerDecides, WorkerLoses
<1>6. CASE Provider(r)
  BY <1>6 DEF Provider, RailServes, PageCloses, Pay, PaymentEnds, Ages
<1> QED BY <1>1, <1>4, <1>5, <1>6

(* A key is given back only once the provider has declined the call it was *)
(* taken for (createSession's definitive refusal), for any calls and keys. *)
THEOREM KeysAreReleasedByRefusals == Spec => ReleasedOnlyWhenDeclined
<1>1. TypeOK /\ SurfaceInv /\ [Next]_vars =>
        [\A id \in Requests :
           db[id].ref # None /\ db'[id].ref # db[id].ref => rail[id] = "declined"]_vars
  BY StepReleases
<1> QED BY <1>1, SurfaceInvariant, PTL DEF Spec, ReleasedOnlyWhenDeclined

(* What one row may become in a step. *)
RowKeepsItsWord(old, new) ==
  /\ old.status \in TERMINAL_STATES =>
       new.status = old.status \/ (old.status = "refused" /\ new = NoRow)
  /\ old.session => new.session
  /\ old.cancelled => new.cancelled \/ new = NoRow

(* A move of the machine leaves no conclusion and clears no column. *)
LEMMA UpdateKeepsTheWord ==
  ASSUME TypeOK, NEW r \in Requests, NEW to, NEW release, NEW opened,
         Update(r, to, release, opened), NEW id \in Requests
  PROVE  RowKeepsItsWord(db[id], db'[id])
<1>1. db[r].status \notin TERMINAL_STATES
  BY DEF Update, CanMove, TRANSITIONS, TERMINAL_STATES
<1>2. db'[r].session = (db[r].session \/ opened) /\ db'[r].cancelled = db[r].cancelled
  BY DEF Update, TypeOK
<1>3. id # r => db'[id] = db[id]
  BY DEF Update, TypeOK
<1> QED BY <1>1, <1>2, <1>3 DEF RowKeepsItsWord

(* Only a refused row is swept, and a refused row has no session. *)
LEMMA StepKeepsTheWord ==
  ASSUME TypeOK, SurfaceInv, Next, NEW id \in Requests
  PROVE  RowKeepsItsWord(db[id], db'[id])
<1>1. PICK r \in Requests : Handler(r) \/ Others(r) \/ Provider(r)
  BY DEF Next
<1>2. ASSUME UNCHANGED db
      PROVE  RowKeepsItsWord(db[id], db'[id])
  BY <1>2 DEF RowKeepsItsWord
<1>3. ASSUME NEW status, NEW ref, db[r] = NoRow, db' = [db EXCEPT ![r] = NewRow(status, ref)]
      PROVE  RowKeepsItsWord(db[id], db'[id])
  BY <1>3 DEF RowKeepsItsWord, TypeOK, NoRow, TERMINAL_STATES
<1>4. CASE Handler(r)
  <2>1. CASE Refuse(r)
    BY <1>2, <1>3, <2>1 DEF Refuse, SurfaceInv, FreshUntilReserved
  <2>2. CASE ReserveInserts(r) \/ ReserveFaults(r)
    BY <1>2, <1>3, <2>2
    DEF ReserveInserts, ReserveFaults, Inserting, SurfaceInv, FreshUntilReserved
  <2>3. CASE CloseRefused(r) \/ CloseUnsure(r) \/ Record(r) \/ RecordFails(r)
    BY <1>2, <2>3, UpdateKeepsTheWord DEF CloseRefused, CloseUnsure, Record, RecordFails
  <2> QED BY <1>2, <1>4, <2>1, <2>2, <2>3 DEF Handler, Accept, ReserveConflicts, ReadFinds,
             ReadMisses, AnswerExisting, CallRail, RailAnswersOpened, RailAnswersDeclined,
             RailAnswerLost, Respond, Die
<1>5. CASE Others(r)
  <2>1. CASE Cancel(r)
    BY <2>1 DEF Cancel, TypeOK, Row, RowKeepsItsWord
  <2>2. CASE WorkerWrites(r)
    BY <1>2, <2>2, UpdateKeepsTheWord DEF WorkerWrites
  <2>3. CASE Prune(r)
    BY <2>3 DEF Prune, TypeOK, RowKeepsItsWord, SurfaceInv, OpenedIsRecorded
  <2> QED BY <1>2, <1>5, <2>1, <2>2, <2>3 DEF Others, WorkerDecides, WorkerLoses
<1>6. CASE Provider(r)
  BY <1>2, <1>6 DEF Provider, RailServes, PageCloses, Pay, PaymentEnds, Ages
<1> QED BY <1>1, <1>4, <1>5, <1>6

(* What a row has said for good stays said, whoever writes next: no        *)
(* conclusion changes, no recorded session or withdrawal is lost           *)
(* (FundingStore.update, cancel and pruneRefusals).                        *)
THEOREM NoRowRetracts == Spec => RowsNeverRetract
<1>1. TypeOK /\ SurfaceInv /\ [Next]_vars =>
        [\A id \in Requests :
           LET old == db[id] new == db'[id]
           IN /\ old.status \in TERMINAL_STATES =>
                   new.status = old.status \/ (old.status = "refused" /\ new = NoRow)
              /\ old.session => new.session
              /\ old.cancelled => new.cancelled \/ new = NoRow]_vars
  BY StepKeepsTheWord DEF RowKeepsItsWord
<1> QED BY <1>1, SurfaceInvariant, PTL DEF Spec, RowsNeverRetract
-----------------------------------------------------------------------------
(* What a caller is told is true *)

Dated(id) == call[id].terms \notin SellTerms

(* A dated request of which nothing was reported and nothing will be: its  *)
(* page has closed and its window is over, so no transfer is in flight.    *)
Unpaid(id) == rail[id] = "closed" /\ aged[id] /\ money[id] = "none"

(* A decision the worker carries is true of the money, and stays true      *)
(* until it is written.                                                    *)
VerdictIsTrue ==
  \A id \in Requests :
    /\ verdict[id] = "transaction_seen" => money[id] # "none"
    /\ verdict[id] \in {"settled", "failed"} => money[id] = verdict[id]
    /\ verdict[id] = "expired" /\ Dated(id) => Unpaid(id)

(* A session is recorded only after the rail said it was open. *)
SessionIsOpen ==
  \A r \in Requests :
    /\ db[r].session \/ pc[r] = "opened" => rail[r] \in {"opened", "closed"}
    /\ pc[r] = "respond" => db[r].session

(* Of the row a handler read back, what still holds when it answers. *)
Stands(r, id, old) ==
  /\ id \in Requests
  /\ call[id].key = call[r].key
  /\ old.status \notin {"absent", "refused"}
  /\ old.status \in {"session_opened", "transaction_seen"} => old.session
  /\ old.session => db[id].session
  /\ old.status \in TERMINAL_STATES => db[id].status = old.status

FoundStands ==
  \A r \in Requests : pc[r] = "found" => Stands(r, found[r].id, found[r].row)

AnswerStands ==
  \A r \in Requests :
    LET id == answer[r].about
    IN /\ answer[r].code = "SESSION" => id \in Requests /\ db[id].session /\ call[id] = call[r]
       /\ answer[r].code = "REQUEST_CONCLUDED" =>
            id \in Requests /\ db[id].status \in {"failed", "expired"}
       /\ answer[r].code # "CORRUPT"

AnswerInv == VerdictIsTrue /\ SessionIsOpen /\ FoundStands /\ AnswerStands

IInv == TypeOK /\ SurfaceInv /\ AnswerInv

LEMMA InitAnswers == Init => AnswerInv
  BY DEF Init, AnswerInv, VerdictIsTrue, SessionIsOpen, FoundStands, AnswerStands, NoRow

(* The moves of a session at the provider and of its transaction. *)
RailMoves ==
  {<<"idle", "sent">>, <<"sent", "opened">>, <<"sent", "declined">>, <<"opened", "closed">>}

ProviderMoves(id) ==
  /\ rail'[id] = rail[id] \/ <<rail[id], rail'[id]>> \in RailMoves
  /\ \/ money'[id] = money[id]
     \/ money[id] = "none" /\ money'[id] = "pending" /\ Payable(id)
     \/ money[id] = "pending" /\ money'[id] \in {"settled", "failed"}
  /\ aged'[id] \in BOOLEAN /\ (aged[id] => aged'[id])

LEMMA StepProvider ==
  ASSUME TypeOK, SurfaceInv, Next
  PROVE  call' = call /\ \A id \in Requests : ProviderMoves(id)
<1> USE DEF ProviderMoves, RailMoves, TypeOK
<1>1. PICK r \in Requests : Handler(r) \/ Others(r) \/ Provider(r)
  BY DEF Next
<1>2. CASE CallRail(r)
  BY <1>2 DEF CallRail, SurfaceInv, FreshUntilReserved
<1>3. CASE Handler(r) /\ ~CallRail(r)
  <2>1. UNCHANGED <<call, rail, money, aged>>
    BY <1>3 DEF Handler, Refuse, Accept, ReserveInserts, ReserveConflicts, ReadFinds, ReadMisses,
       ReserveFaults, AnswerExisting, RailAnswersOpened, RailAnswersDeclined, RailAnswerLost,
       CloseRefused, CloseUnsure, Record, RecordFails, Respond, Die
  <2> QED BY <2>1
<1>4. CASE Others(r)
  BY <1>4 DEF Others, Cancel, WorkerDecides, WorkerWrites, WorkerLoses, Prune, handlerVars
<1>5. CASE Provider(r)
  BY <1>5 DEF Provider, RailServes, PageCloses, Pay, PaymentEnds, Ages, handlerVars
<1> QED BY <1>1, <1>2, <1>3, <1>4, <1>5

(* What the worker decides is true when it decides it. *)
LEMMA ConclusionsAreTrue ==
  ASSUME SurfaceInv, NEW id \in Requests, NEW to \in Conclusions(id)
  PROVE  /\ to = "transaction_seen" => money[id] # "none"
         /\ to \in {"settled", "failed"} => money[id] = to
         /\ to = "expired" /\ Dated(id) => Unpaid(id)
  BY DEF SurfaceInv, OpenedIsRecorded, Conclusions, WindowOver, Dated, Unpaid

LEMMA VerdictsMove ==
  ASSUME TypeOK, Next, NEW id \in Requests
  PROVE  verdict'[id] = verdict[id] \/ verdict'[id] = "none" \/ verdict'[id] \in Conclusions(id)
<1>1. PICK r \in Requests : Handler(r) \/ Others(r) \/ Provider(r)
  BY DEF Next
<1>2. CASE Handler(r) \/ Provider(r)
  BY <1>2 DEF Handler, Refuse, Accept, ReserveInserts, ReserveConflicts, ReadFinds, ReadMisses,
     ReserveFaults, AnswerExisting, CallRail, RailAnswersOpened, RailAnswersDeclined,
     RailAnswerLost, CloseRefused, CloseUnsure, Record, RecordFails, Respond, Die,
     Provider, RailServes, PageCloses, Pay, PaymentEnds, Ages
<1>3. CASE Others(r)
  BY <1>3 DEF Others, Cancel, WorkerDecides, WorkerWrites, WorkerLoses, Prune, TypeOK
<1> QED BY <1>1, <1>2, <1>3

LEMMA StepVerdict ==
  ASSUME TypeOK, SurfaceInv, VerdictIsTrue, Next
  PROVE  VerdictIsTrue'
<1> SUFFICES ASSUME NEW id \in Requests
             PROVE  /\ verdict'[id] = "transaction_seen" => money'[id] # "none"
                    /\ verdict'[id] \in {"settled", "failed"} => money'[id] = verdict'[id]
                    /\ verdict'[id] = "expired" /\ Dated(id)' => Unpaid(id)'
  BY DEF VerdictIsTrue
<1>1. ProviderMoves(id) /\ Dated(id)' = Dated(id)
  BY StepProvider DEF Dated
<1>2. verdict'[id] # "none" =>
        /\ verdict'[id] = "transaction_seen" => money[id] # "none"
        /\ verdict'[id] \in {"settled", "failed"} => money[id] = verdict'[id]
        /\ verdict'[id] = "expired" /\ Dated(id) => Unpaid(id)
  BY VerdictsMove, ConclusionsAreTrue DEF VerdictIsTrue
<1>3. Dated(id) /\ Unpaid(id) => Unpaid(id)'
  BY <1>1 DEF Dated, Unpaid, Payable, ProviderMoves, RailMoves
<1> QED BY <1>1, <1>2, <1>3 DEF ProviderMoves

(* What a step does to one handler, as far as its answer depends on it. *)
Quiet == Codes \ {"SESSION", "REQUEST_CONCLUDED", "CORRUPT"}

HandlerSteps(q) ==
  /\ pc'[q] = "opened" => pc[q] = "opened" \/ rail[q] \in {"opened", "closed"}
  /\ pc'[q] = "respond" => pc[q] = "respond" \/ db'[q].session
  /\ pc'[q] = "found" =>
       \/ pc[q] = "found" /\ found'[q] = found[q]
       \/ \E id \in Holders(call[q].key) : found'[q] = [id |-> id, row |-> db[id]]
  /\ \/ answer'[q] = answer[q]
     \/ answer'[q].code \in Quiet
     \/ pc[q] = "respond" /\ answer'[q] = [code |-> "SESSION", about |-> q]
     \/ /\ pc[q] = "found"
        /\ \E closed \in BOOLEAN :
             answer'[q] = [code  |-> Judge(found[q].row,
                                           call[q].terms = call[found[q].id].terms, closed),
                           about |-> found[q].id]

LEMMA ReplyAnswers ==
  ASSUME TypeOK, NEW r \in Requests, NEW code, NEW id, Reply(r, code, id)
  PROVE  /\ pc'[r] = "done" /\ answer'[r] = [code |-> code, about |-> id]
         /\ \A q \in Requests \ {r} : pc'[q] = pc[q] /\ answer'[q] = answer[q]
  BY DEF TypeOK, Reply, Goto

LEMMA OwnHandlerSteps ==
  ASSUME TypeOK, NEW r \in Requests, Handler(r)
  PROVE  HandlerSteps(r)
<1> USE DEF HandlerSteps, Quiet, Codes
<1>0. ASSUME NEW code \in Quiet, NEW id, Reply(r, code, id)
      PROVE  HandlerSteps(r)
  <2>1. pc'[r] = "done" /\ answer'[r] = [code |-> code, about |-> id]
    BY <1>0, ReplyAnswers
  <2> QED BY <2>1
<1>1. CASE Refuse(r) \/ ReserveFaults(r) \/ CloseRefused(r) \/ CloseUnsure(r) \/ RecordFails(r)
  BY <1>0, <1>1 DEF Refuse, ReserveFaults, CloseRefused, CloseUnsure, RecordFails
<1>2. CASE Accept(r) \/ ReserveInserts(r) \/ ReserveConflicts(r) \/ CallRail(r)
             \/ RailAnswersOpened(r) \/ RailAnswersDeclined(r) \/ RailAnswerLost(r) \/ Die(r)
  BY <1>2, GotoEffect DEF Accept, ReserveInserts, ReserveConflicts, CallRail, RailAnswersOpened,
     RailAnswersDeclined, RailAnswerLost, Die
<1>3. CASE ReadFinds(r)
  BY <1>3, GotoEffect DEF ReadFinds, TypeOK
<1>4. CASE ReadMisses(r)
  BY <1>0, <1>4, GotoEffect DEF ReadMisses
<1>5. CASE AnswerExisting(r)
  <2> DEFINE closed == rail[found[r].id] = "closed" /\ call[found[r].id].terms \notin SellTerms
             code == Judge(found[r].row, call[r].terms = call[found[r].id].terms, closed)
  <2>1. pc[r] = "found" /\ Reply(r, code, found[r].id)
    BY <1>5 DEF AnswerExisting
  <2>2. closed \in BOOLEAN
    OBVIOUS
  <2>3. pc'[r] = "done" /\ answer'[r] = [code |-> code, about |-> found[r].id]
    BY <2>1, ReplyAnswers
  <2> QED BY <2>1, <2>2, <2>3
<1>6. CASE Record(r)
  <2>1. db'[r].session
    BY <1>6 DEF Record, Update, TypeOK
  <2> QED BY <1>6, <2>1, GotoEffect DEF Record
<1>7. CASE Respond(r)
  BY <1>7, ReplyAnswers DEF Respond
<1> QED BY <1>1, <1>2, <1>3, <1>4, <1>5, <1>6, <1>7 DEF Handler

LEMMA StepHandlers ==
  ASSUME TypeOK, Next, NEW q \in Requests
  PROVE  HandlerSteps(q)
<1>1. PICK r \in Requests : Handler(r) \/ Others(r) \/ Provider(r)
  BY DEF Next
<1>2. CASE Handler(r)
  <2>1. CASE r = q
    BY <1>2, <2>1, OwnHandlerSteps
  <2>2. CASE r # q
    <3>1. pc'[q] = pc[q] /\ answer'[q] = answer[q] /\ found'[q] = found[q]
      BY <1>2, <2>2 DEF TypeOK, Handler, Refuse, Accept, ReserveInserts, ReserveConflicts, ReadFinds,
         ReadMisses, ReserveFaults, AnswerExisting, CallRail, RailAnswersOpened, RailAnswersDeclined,
         RailAnswerLost, CloseRefused, CloseUnsure, Record, RecordFails, Respond, Die, Reply, Goto
    <3>2. pc[q] = "respond" => pc[q] = "respond" \/ db'[q].session
      OBVIOUS
    <3> QED BY <3>1, <3>2 DEF HandlerSteps
  <2> QED BY <2>1, <2>2
<1>3. CASE Others(r) \/ Provider(r)
  BY <1>3 DEF HandlerSteps, Others, Cancel, WorkerDecides, WorkerWrites, WorkerLoses, Prune,
     Provider, RailServes, PageCloses, Pay, PaymentEnds, Ages, handlerVars
<1> QED BY <1>1, <1>2, <1>3

(* Only the handler that opened a session records one. *)
LEMMA StepRecords ==
  ASSUME TypeOK, SurfaceInv, Next, NEW id \in Requests, db'[id].session, ~db[id].session
  PROVE  pc[id] = "opened"
<1>1. PICK r \in Requests : Handler(r) \/ Others(r) \/ Provider(r)
  BY DEF Next
<1>2. ASSUME NEW to, NEW release, Update(r, to, release, FALSE)
      PROVE  FALSE
  BY <1>2 DEF Update, TypeOK
<1>3. ASSUME NEW status, NEW ref, db' = [db EXCEPT ![r] = NewRow(status, ref)]
      PROVE  FALSE
  BY <1>3 DEF TypeOK, NewRow
<1>4. CASE Handler(r)
  <2>1. CASE Refuse(r) \/ ReserveInserts(r) \/ ReserveFaults(r)
    BY <1>3, <2>1 DEF Refuse, ReserveInserts, ReserveFaults
  <2>2. CASE CloseRefused(r) \/ CloseUnsure(r)
    BY <1>2, <2>2 DEF CloseRefused, CloseUnsure
  <2>3. CASE Record(r) \/ RecordFails(r)
    <3>1. pc[r] = "opened"
      BY <2>3 DEF Record, RecordFails
    <3>2. id = r
      BY <2>3 DEF Record, RecordFails, Update, TypeOK
    <3> QED BY <3>1, <3>2
  <2>4. CASE UNCHANGED db
    BY <2>4
  <2> QED BY <1>4, <2>1, <2>2, <2>3, <2>4 DEF Handler, Accept, ReserveConflicts, ReadFinds,
             ReadMisses, AnswerExisting, CallRail, RailAnswersOpened, RailAnswersDeclined,
             RailAnswerLost, Respond, Die
<1>5. CASE Others(r)
  <2>1. CASE Cancel(r)
    BY <2>1 DEF Cancel, TypeOK, Row
  <2>2. CASE WorkerWrites(r)
    BY <1>2, <2>2 DEF WorkerWrites
  <2>3. CASE Prune(r)
    BY <2>3 DEF Prune, TypeOK, NoRow
  <2> QED BY <1>5, <2>1, <2>2, <2>3 DEF Others, WorkerDecides, WorkerLoses
<1>6. CASE Provider(r)
  BY <1>6 DEF Provider, RailServes, PageCloses, Pay, PaymentEnds, Ages
<1> QED BY <1>1, <1>4, <1>5, <1>6

LEMMA StepSessions ==
  ASSUME TypeOK, SurfaceInv, SessionIsOpen, Next
  PROVE  SessionIsOpen'
<1> SUFFICES ASSUME NEW r \in Requests
             PROVE  /\ db'[r].session \/ pc'[r] = "opened" => rail'[r] \in {"opened", "closed"}
                    /\ pc'[r] = "respond" => db'[r].session
  BY DEF SessionIsOpen
<1>1. HandlerSteps(r) /\ ProviderMoves(r) /\ RowKeepsItsWord(db[r], db'[r])
  BY StepHandlers, StepProvider, StepKeepsTheWord
<1>2. rail[r] \in {"opened", "closed"} => rail'[r] \in {"opened", "closed"}
  BY <1>1 DEF ProviderMoves, RailMoves
<1>3. db'[r].session \/ pc'[r] = "opened" => rail[r] \in {"opened", "closed"}
  BY <1>1, StepRecords DEF HandlerSteps, SessionIsOpen
<1>4. pc'[r] = "respond" => db'[r].session
  BY <1>1 DEF HandlerSteps, RowKeepsItsWord, SessionIsOpen
<1> QED BY <1>2, <1>3, <1>4

(* A copy read from the table stands from the moment it is read, because a *)
(* row keeps its word.                                                     *)
LEMMA ReadStands ==
  ASSUME TypeOK, SurfaceInv, NEW r \in Requests, NEW id \in Holders(call[r].key)
  PROVE  Stands(r, id, db[id])
<1>1. id \in Requests /\ db[id].ref = call[r].key /\ call[r].key # None
  BY ConstantsAssumption DEF Holders, TypeOK
<1>2. call[id].key = call[r].key /\ db[id].status \notin {"absent", "refused"}
  BY <1>1 DEF SurfaceInv, KeyIsTheCalls, KeylessRows
<1>3. db[id].status \in {"session_opened", "transaction_seen"} => db[id].session
  BY <1>1 DEF SurfaceInv, OpenedIsRecorded
<1> QED BY <1>1, <1>2, <1>3 DEF Stands

LEMMA StillStands ==
  ASSUME TypeOK, SurfaceInv, Next, NEW r \in Requests, NEW id, NEW old, Stands(r, id, old)
  PROVE  Stands(r, id, old)'
<1>1. call' = call
  BY StepProvider
<1>2. id \in Requests /\ RowKeepsItsWord(db[id], db'[id])
  BY StepKeepsTheWord DEF Stands
<1> QED BY <1>1, <1>2 DEF Stands, RowKeepsItsWord

LEMMA StepFound ==
  ASSUME TypeOK, SurfaceInv, FoundStands, Next
  PROVE  FoundStands'
<1> SUFFICES ASSUME NEW r \in Requests, pc'[r] = "found"
             PROVE  Stands(r, found[r].id, found[r].row)'
  BY DEF FoundStands
<1>1. PICK id, old : id = found'[r].id /\ old = found'[r].row
  OBVIOUS
<1>2. Stands(r, id, old)
  <2>1. CASE pc[r] = "found" /\ found'[r] = found[r]
    BY <1>1, <2>1 DEF FoundStands
  <2>2. ASSUME NEW holder \in Holders(call[r].key), found'[r] = [id |-> holder, row |-> db[holder]]
        PROVE  Stands(r, id, old)
    <3>1. id = holder /\ old = db[holder]
      BY <1>1, <2>2
    <3> QED BY <3>1, ReadStands
  <2> QED BY <2>1, <2>2, StepHandlers DEF HandlerSteps
<1>3. Stands(r, id, old)'
  BY <1>2, StillStands
<1> QED BY <1>1, <1>3 DEF Stands

(* What the handler makes of a row that stands. *)
LEMMA JudgeIsTrue ==
  ASSUME TypeOK, NEW r \in Requests, pc[r] = "found", FoundStands, NEW closed \in BOOLEAN
  PROVE  LET id == found[r].id
             code == Judge(found[r].row, call[r].terms = call[id].terms, closed)
         IN /\ id \in Requests
            /\ code = "SESSION" => db[id].session /\ call[id] = call[r]
            /\ code = "REQUEST_CONCLUDED" => db[id].status \in {"failed", "expired"}
            /\ code # "CORRUPT"
<1> DEFINE id == found[r].id
           row == found[r].row
           code == Judge(row, call[r].terms = call[id].terms, closed)
<1>1. Stands(r, id, row) /\ row \in Row
  BY DEF FoundStands, TypeOK
<1>2. id \in Requests
  BY <1>1 DEF Stands
<1>3. row.status = "created" \/ row.status \in TERMINAL_STATES \/ row.session
  BY <1>1 DEF Stands, Row, FUNDING_STATES, TERMINAL_STATES
<1>4. code # "CORRUPT"
  BY <1>3 DEF Judge, Concluded, Replay, TERMINAL_STATES
<1>5. code = "REQUEST_CONCLUDED" => row.status \in {"failed", "expired", "refused"}
  BY DEF Judge, Concluded, Replay, TERMINAL_STATES
<1>6. code = "SESSION" => row.session /\ call[r].terms = call[id].terms
  BY DEF Judge, Concluded, Replay, TERMINAL_STATES
<1>7. call[r].terms = call[id].terms => call[id] = call[r]
  BY <1>1, <1>2 DEF Stands, TypeOK
<1> QED BY <1>1, <1>2, <1>4, <1>5, <1>6, <1>7 DEF Stands, TERMINAL_STATES

LEMMA StepAnswers ==
  ASSUME IInv, Next
  PROVE  AnswerStands'
<1> USE DEF IInv, AnswerInv
<1> SUFFICES ASSUME NEW r \in Requests
             PROVE  LET id == answer'[r].about
                    IN /\ answer'[r].code = "SESSION" =>
                            id \in Requests /\ db'[id].session /\ call'[id] = call'[r]
                       /\ answer'[r].code = "REQUEST_CONCLUDED" =>
                            id \in Requests /\ db'[id].status \in {"failed", "expired"}
                       /\ answer'[r].code # "CORRUPT"
  BY DEF AnswerStands
<1> DEFINE id == answer'[r].about
<1>1. call' = call
  BY StepProvider
<1>2. id \in Requests => RowKeepsItsWord(db[id], db'[id])
  BY StepKeepsTheWord
<1>3. /\ answer'[r].code = "SESSION" => id \in Requests /\ db[id].session /\ call[id] = call[r]
      /\ answer'[r].code = "REQUEST_CONCLUDED" =>
           id \in Requests /\ db[id].status \in {"failed", "expired"}
      /\ answer'[r].code # "CORRUPT"
  <2>1. CASE answer'[r] = answer[r]
    BY <2>1 DEF AnswerStands
  <2>2. CASE answer'[r].code \in Quiet
    BY <2>2 DEF Quiet
  <2>3. CASE pc[r] = "respond" /\ answer'[r] = [code |-> "SESSION", about |-> r]
    BY <2>3 DEF SessionIsOpen
  <2>4. ASSUME pc[r] = "found", NEW closed \in BOOLEAN,
               answer'[r] = [code  |-> Judge(found[r].row,
                                             call[r].terms = call[found[r].id].terms, closed),
                             about |-> found[r].id]
        PROVE  <1>3
    <3>1. /\ answer'[r].code = Judge(found[r].row, call[r].terms = call[found[r].id].terms, closed)
          /\ id = found[r].id
      BY <2>4
    <3> HIDE DEF id
    <3> QED BY <2>4, <3>1, JudgeIsTrue
  <2> QED BY <2>1, <2>2, <2>3, <2>4, StepHandlers DEF HandlerSteps
<1>4. id \in Requests /\ db[id].status \in {"failed", "expired"} => db'[id].status = db[id].status
  BY <1>2 DEF RowKeepsItsWord, TERMINAL_STATES
<1>5. id \in Requests /\ db[id].session => db'[id].session
  BY <1>2 DEF RowKeepsItsWord
<1> QED BY <1>1, <1>3, <1>4, <1>5

LEMMA StepIInv == IInv /\ [Next]_vars => IInv'
<1>1. IInv /\ UNCHANGED vars => IInv'
  <2>1. AnswerInv /\ UNCHANGED vars => AnswerInv'
    BY DEF vars, AnswerInv, VerdictIsTrue, Dated, Unpaid, SessionIsOpen, FoundStands, Stands, AnswerStands
  <2> QED BY <2>1, StepType, StepSurface DEF IInv
<1>2. IInv /\ Next => IInv'
  BY StepType, StepSurface, StepVerdict, StepSessions, StepFound, StepAnswers DEF IInv, AnswerInv
<1> QED BY <1>1, <1>2

LEMMA IInvHolds == Spec => []IInv
  BY InitType, InitSurface, InitAnswers, StepIInv, PTL DEF Spec, IInv
-----------------------------------------------------------------------------
(* The table implements the lifecycle every row promises *)

LEMMA InitRefines == Init => Lifecycle!Init
<1> SUFFICES ASSUME Init PROVE Lifecycle!Init
  OBVIOUS
<1>1. \A id \in Requests : db[id].status = "absent" /\ Payable(id) = FALSE
  BY DEF Init, NoRow, Payable
<1>2. [id \in Requests |-> Payable(id)] = [id \in Requests |-> FALSE]
  BY <1>1, Zenon
<1>3. [id \in Requests |-> call[id].terms \notin SellTerms] \in [Requests -> BOOLEAN]
  BY Zenon
<1> QED BY <1>1, <1>2, <1>3 DEF Init, Lifecycle!Init

(* What one row's status may do, with the handlers, the worker and the     *)
(* sweep all writing it: the abstract RowSteps.                            *)
StatusSteps(id) ==
  LET from == db[id].status to == db'[id].status
  IN \/ from = to
     \/ from = "absent" /\ to \in {"created", "refused"}
     \/ /\ CanMove(from, to)
        /\ to = "transaction_seen" => money[id] # "none"
        /\ to \in {"settled", "failed"} => money[id] = to
        /\ to = "expired" /\ Dated(id) => money[id] = "none" /\ ~Payable(id)
     \/ from = "refused" /\ to = "absent"

LEMMA StepStatus ==
  ASSUME IInv, Next, NEW id \in Requests
  PROVE  StatusSteps(id)
<1> USE DEF IInv, StatusSteps
<1>1. PICK r \in Requests : Handler(r) \/ Others(r) \/ Provider(r)
  BY DEF Next
<1>2. ASSUME NEW to \in {"refused", "unobserved", "session_opened"}, NEW release, NEW opened,
             Update(r, to, release, opened)
      PROVE  StatusSteps(id)
  BY <1>2 DEF Update, TypeOK
<1>3. ASSUME NEW status \in {"created", "refused"}, NEW ref, db[r] = NoRow,
             db' = [db EXCEPT ![r] = NewRow(status, ref)]
      PROVE  StatusSteps(id)
  BY <1>3 DEF TypeOK, NoRow, NewRow
<1>4. CASE UNCHANGED db
  BY <1>4
<1>5. CASE Handler(r)
  <2>1. CASE Refuse(r)
    BY <1>3, <1>4, <2>1 DEF Refuse, SurfaceInv, FreshUntilReserved
  <2>2. CASE ReserveInserts(r) \/ ReserveFaults(r)
    BY <1>3, <1>4, <2>2
    DEF ReserveInserts, ReserveFaults, Inserting, SurfaceInv, FreshUntilReserved
  <2>3. CASE CloseRefused(r) \/ CloseUnsure(r) \/ Record(r) \/ RecordFails(r)
    BY <1>2, <1>4, <2>3 DEF CloseRefused, CloseUnsure, Record, RecordFails
  <2> QED BY <1>4, <1>5, <2>1, <2>2, <2>3 DEF Handler, Accept, ReserveConflicts, ReadFinds,
             ReadMisses, AnswerExisting, CallRail, RailAnswersOpened, RailAnswersDeclined,
             RailAnswerLost, Respond, Die
<1>6. CASE Others(r)
  <2>1. CASE Cancel(r)
    BY <2>1 DEF Cancel, TypeOK, Row
  <2>2. CASE WorkerWrites(r) /\ Update(r, verdict[r], FALSE, FALSE)
    BY <2>2 DEF Update, TypeOK, AnswerInv, VerdictIsTrue, Unpaid, Payable, Dated
  <2>3. CASE Prune(r)
    BY <2>3 DEF Prune, TypeOK, NoRow
  <2> QED BY <1>4, <1>6, <2>1, <2>2, <2>3 DEF Others, WorkerDecides, WorkerWrites, WorkerLoses
<1>7. CASE Provider(r)
  BY <1>4, <1>7 DEF Provider, RailServes, PageCloses, Pay, PaymentEnds, Ages
<1> QED BY <1>1, <1>5, <1>6, <1>7

(* A page opens only for a row that is reserved or written off, and only   *)
(* the opening of its page makes a request payable.                        *)
LEMMA OpeningIsForReserved ==
  ASSUME IInv, NEW id \in Requests, rail[id] = "sent"
  PROVE  db[id].status \in {"created", "unobserved"}
<1>1. db[id].ref = call[id].key /\ call[id].key # None
  BY ConstantsAssumption DEF IInv, SurfaceInv, CallHoldsKey, Outstanding, TypeOK
<1>2. ~db[id].session
  BY DEF IInv, AnswerInv, SessionIsOpen
<1> QED BY <1>1, <1>2 DEF IInv, SurfaceInv, KeylessRows, OpenedIsRecorded, TypeOK, Row, FUNDING_STATES

LEMMA StepRefines ==
  ASSUME IInv, Next
  PROVE  Lifecycle!Next
<1>1. TypeOK /\ TypeOK'
  BY StepType DEF IInv
<1>2. call' = call /\ \A id \in Requests : ProviderMoves(id)
  BY StepProvider DEF IInv
<1>3. [id \in Requests |-> db'[id].status] \in [Requests -> FUNDING_STATES \cup {"absent"}]
  BY <1>1 DEF TypeOK, Row
<1>4. [id \in Requests |-> Payable(id)'] \in [Requests -> BOOLEAN]
  BY Zenon DEF Payable
<1>5. money' \in [Requests -> {"none", "pending", "settling", "settled", "failed"}]
  BY <1>1 DEF TypeOK
<1>6. [id \in Requests |-> call'[id].terms \notin SellTerms] =
        [id \in Requests |-> call[id].terms \notin SellTerms]
  BY <1>2
<1>7. ASSUME NEW id \in Requests
      PROVE  Lifecycle!RowSteps(id) /\ Lifecycle!PageSteps(id) /\ Lifecycle!MoneySteps(id)
  <2>1. Lifecycle!RowSteps(id)
    BY StepStatus DEF StatusSteps, Dated, Lifecycle!RowSteps, Lifecycle!MayConclude,
       Lifecycle!CanMove, Lifecycle!TRANSITIONS, CanMove, TRANSITIONS
  <2>2. Lifecycle!PageSteps(id)
    <3>1. Payable(id)' /\ ~Payable(id) => rail[id] = "sent"
      BY <1>2 DEF ProviderMoves, RailMoves, Payable
    <3> QED BY <3>1, OpeningIsForReserved DEF Lifecycle!PageSteps
  <2>3. Lifecycle!MoneySteps(id)
    BY <1>2 DEF ProviderMoves, Lifecycle!MoneySteps
  <2> QED BY <2>1, <2>2, <2>3
<1> QED
  BY <1>3, <1>4, <1>5, <1>6, <1>7
  DEF Lifecycle!Next, Lifecycle!FUNDING_STATES, FUNDING_STATES

(* Every interleaving of handlers, worker, sweep and provider is a         *)
(* behaviour of the lifecycle: the state machine of state.ts, with the     *)
(* money it speaks of, is what the table shows, for any number of calls.   *)
THEOREM SessionsImplementLifecycle == Spec => ImplementsLifecycle
<1>1. UNCHANGED vars => UNCHANGED Lifecycle!vars
  BY DEF vars, Payable, Lifecycle!vars
<1>2. IInv /\ [Next]_vars => [Lifecycle!Next]_(Lifecycle!vars)
  BY <1>1, StepRefines
<1> QED BY InitRefines, <1>2, IInvHolds, PTL DEF Spec, ImplementsLifecycle, Lifecycle!Spec

(* The inductive invariant of the lifecycle, of this table: that no payment *)
(* can still come is what keeps `nobody paid' true after the write.         *)
LifecycleInv == Lifecycle!TypeOK /\ Lifecycle!StatusIsTrue /\ Lifecycle!ExpiredIsUnpayable

LEMMA LifecycleStarts == Lifecycle!Init => LifecycleInv
  BY DEF Lifecycle!Init, LifecycleInv, Lifecycle!TypeOK, Lifecycle!StatusIsTrue,
     Lifecycle!ExpiredIsUnpayable, Lifecycle!FUNDING_STATES

LEMMA LifecycleSteps ==
  LifecycleInv /\ [Lifecycle!Next]_(Lifecycle!vars) => LifecycleInv'
<1> SUFFICES ASSUME LifecycleInv, [Lifecycle!Next]_(Lifecycle!vars) PROVE LifecycleInv'
  OBVIOUS
<1>1. CASE UNCHANGED Lifecycle!vars
  BY <1>1 DEF LifecycleInv, Lifecycle!TypeOK, Lifecycle!StatusIsTrue,
     Lifecycle!ExpiredIsUnpayable, Lifecycle!vars
<1>2. CASE Lifecycle!Next
  <2>1. Lifecycle!TypeOK'
    BY <1>2 DEF Lifecycle!Next, LifecycleInv, Lifecycle!TypeOK
  <2>2. ASSUME NEW id \in Requests, db'[id].status = "expired",
               call'[id].terms \notin SellTerms
        PROVE  money'[id] = "none" /\ ~Payable(id)'
    <3>1. /\ call[id].terms \notin SellTerms /\ Lifecycle!RowSteps(id) /\ Lifecycle!PageSteps(id)
          /\ Lifecycle!MoneySteps(id)
      BY <1>2, <2>2 DEF Lifecycle!Next
    <3>2. money[id] = "none" /\ ~Payable(id)
      <4>1. CASE db[id].status = "expired"
        BY <3>1, <4>1 DEF LifecycleInv, Lifecycle!StatusIsTrue, Lifecycle!ExpiredIsUnpayable
      <4>2. CASE db[id].status # "expired"
        BY <2>2, <3>1, <4>2 DEF Lifecycle!RowSteps, Lifecycle!MayConclude
      <4> QED BY <4>1, <4>2
    <3>3. money'[id] = "none"
      BY <3>1, <3>2 DEF Lifecycle!MoneySteps
    <3>4. ~Payable(id)'
      <4>1. db[id].status \notin {"created", "unobserved"}
        BY <2>2, <3>1 DEF Lifecycle!RowSteps, Lifecycle!CanMove, Lifecycle!TRANSITIONS
      <4> QED BY <3>1, <3>2, <4>1 DEF Lifecycle!PageSteps
    <3> QED BY <3>3, <3>4
  <2>3. ASSUME NEW id \in Requests, db'[id].status = "transaction_seen"
        PROVE  money'[id] # "none"
    <3>1. Lifecycle!RowSteps(id) /\ Lifecycle!MoneySteps(id)
      BY <1>2 DEF Lifecycle!Next
    <3>2. money[id] # "none"
      BY <2>3, <3>1 DEF LifecycleInv, Lifecycle!StatusIsTrue, Lifecycle!RowSteps,
         Lifecycle!MayConclude
    <3> QED BY <3>1, <3>2 DEF Lifecycle!MoneySteps
  <2>4. ASSUME NEW id \in Requests, db'[id].status \in {"settled", "failed"}
        PROVE  money'[id] = db'[id].status
    <3>1. Lifecycle!RowSteps(id) /\ Lifecycle!MoneySteps(id)
      BY <1>2 DEF Lifecycle!Next
    <3>2. money[id] = db'[id].status
      BY <2>4, <3>1 DEF LifecycleInv, Lifecycle!StatusIsTrue, Lifecycle!RowSteps,
         Lifecycle!MayConclude
    <3> QED BY <2>4, <3>1, <3>2 DEF Lifecycle!MoneySteps
  <2> QED BY <2>1, <2>2, <2>3, <2>4
          DEF LifecycleInv, Lifecycle!StatusIsTrue, Lifecycle!ExpiredIsUnpayable
<1> QED BY <1>1, <1>2

(* A row never misstates its buyer's money: a request that expired under a *)
(* page with an expiry was not paid, nor by a transfer that settled after  *)
(* the page closed; a seen one was paid, a settled or failed one ended so  *)
(* (the conclusions advanceOne writes at deadlineFor).                     *)
RowsAreTrue ==
  \A id \in Requests :
    /\ db[id].status = "expired" /\ Dated(id) => money[id] = "none"
    /\ db[id].status = "transaction_seen" => money[id] # "none"
    /\ db[id].status \in {"settled", "failed"} => money[id] = db[id].status

(* RowsAreTrue in every state the handlers, the worker, the sweep, the     *)
(* clock and the provider reach (createSession, advanceOne), of a provider *)
(* that reports a payment while Payable holds.                             *)
THEOREM RowsTellTheTruth == Spec => []RowsAreTrue
<1>1. LifecycleInv => RowsAreTrue
  BY DEF LifecycleInv, Lifecycle!StatusIsTrue, RowsAreTrue, Dated
<1> QED BY <1>1, LifecycleStarts, LifecycleSteps, SessionsImplementLifecycle, PTL
        DEF ImplementsLifecycle, Lifecycle!Spec

(* No step revises a conclusion a row has reached, but for the sweep of a  *)
(* refusal (state.ts, TERMINAL_STATES; store.ts, pruneRefusals).           *)
THEOREM ConclusionsStand == Spec => Lifecycle!ConclusionsStand
<1>1. [Lifecycle!Next]_(Lifecycle!vars) => [Lifecycle!NothingRevised]_(Lifecycle!vars)
  BY DEF Lifecycle!Next, Lifecycle!RowSteps, Lifecycle!CanMove, Lifecycle!TRANSITIONS,
     Lifecycle!TERMINAL_STATES, Lifecycle!NothingRevised
<1> QED BY <1>1, SessionsImplementLifecycle, PTL
        DEF ImplementsLifecycle, Lifecycle!Spec, Lifecycle!ConclusionsStand

(* What a caller of POST /session is told is true, however its call, its   *)
(* retries, the worker and the provider interleave: a 201 names an open    *)
(* session on a row of its own key and terms; a dated request it is told   *)
(* has concluded was not paid and will not be, its transfers in flight     *)
(* included; a refusal is the rail's; replay() never meets a row with half *)
(* a handoff.                                                              *)
THEOREM AnswersTrue == Spec => []AnswersAreTrue
<1>1. IInv => SessionIsTheCallers
  <2> SUFFICES ASSUME IInv, NEW r \in Requests, answer[r].code = "SESSION"
               PROVE  LET id == answer[r].about
                      IN /\ rail[id] \in {"opened", "closed"} /\ db[id].session
                         /\ call[id] = call[r] /\ db[id].ref = call[r].key
    BY DEF SessionIsTheCallers
  <2>1. PICK id \in Requests : id = answer[r].about /\ db[id].session /\ call[id] = call[r]
    BY DEF IInv, AnswerInv, AnswerStands
  <2>2. rail[id] \in {"opened", "closed"}
    BY <2>1 DEF IInv, AnswerInv, SessionIsOpen
  <2>3. db[id].ref = call[id].key
    BY <2>2 DEF IInv, SurfaceInv, CallHoldsKey, Outstanding
  <2> QED BY <2>1, <2>2, <2>3
<1>2. IInv /\ RowsAreTrue => ConcludedIsSafe
  BY DEF IInv, AnswerInv, AnswerStands, RowsAreTrue, Dated, ConcludedIsSafe
<1>3. IInv => ReplayNeverCorrupt
  BY DEF IInv, AnswerInv, AnswerStands, ReplayNeverCorrupt
<1>4. IInv /\ RowsAreTrue /\ RefusedHasNoSurface => AnswersAreTrue
  BY <1>1, <1>2, <1>3 DEF AnswersAreTrue
<1> QED BY <1>4, IInvHolds, RowsTellTheTruth, RefusalsAreReal, PTL
=============================================================================
