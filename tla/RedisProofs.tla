---------------------------- MODULE RedisProofs ----------------------------
(***************************************************************************)
(* Proofs about RedisClient, for any set of positions, with or without a   *)
(* password and for any number of tries: its types, and that it implements *)
(* PositionStore, which is what Subscriber takes Redis to be.              *)
(***************************************************************************)
EXTENDS RedisClient, TLAPS

\* Where a try stands when the result already reads 0: it is about to send
\* its command on a connection it made itself, Redis has hung up on an
\* earlier command of the call, or a reply is there.
ZeroExplained ==
    /\ at = "loop" /\ ~again => ret = -1
    /\ at = "loop" /\ ret = 0 => hungup
    /\ at = "command" /\ ret = 0 => conn = "ready"
    /\ at = "return" /\ op = "read" /\ ret = 0 =>
           hungup \/ reply \in Positions \union {NoPos}

\* A value that answers a read under way is the value stored.
ReplyIsStored ==
    /\ at \in {"loop", "command", "return"}
    /\ op = "read"
    /\ reply \in Positions \union {NoPos}
    => reply = stored

\* A first try has not counted anything yet.
FirstTry == at = "loop" /\ ~again => i = 0

IInv ==
    TypeOK /\ ZeroExplained /\ ReplyIsStored /\ FirstTry /\ LeftoverServesOneTry

\* The invariant holds when MyRedis::Init has run.
LEMMA RedisInit == Init => IInv
<1> SUFFICES ASSUME Init PROVE IInv
  OBVIOUS
<1>1. Counts
  BY TriesAssumption DEF TriesAssumption, Init, Counts
<1>2. Flags
  BY DEF Init, Flags
<1>3. Values
  BY DEF Init, Values
<1>4. ZeroExplained /\ ReplyIsStored /\ FirstTry /\ LeftoverServesOneTry
  BY DEF Init, ZeroExplained, ReplyIsStored, FirstTry, LeftoverServesOneTry
<1> QED
  BY <1>1, <1>2, <1>3, <1>4 DEF IInv, TypeOK

\* Every step keeps the tries and the result in their ranges.
LEMMA CountsStep == Counts /\ [Next]_vars => Counts'
<1> SUFFICES ASSUME Counts, [Next]_vars PROVE Counts'
  OBVIOUS
<1> USE TriesAssumption DEF Counts, TriesAssumption
<1>1. ASSUME NEW p \in Positions, SaveNextReqPos(p) PROVE Counts'
  BY <1>1 DEF SaveNextReqPos, Begin
<1>2. CASE ReadNextReqPos
  BY <1>2 DEF ReadNextReqPos, Begin
<1>3. CASE UseConnection
  BY <1>3 DEF UseConnection
<1>4. CASE ConnectFails
  BY <1>4 DEF ConnectFails, MustConnect, Continue
<1>5. CASE LogsIn
  BY <1>5 DEF LogsIn, MustConnect
<1>6. CASE LoginRefused
  BY <1>6 DEF LoginRefused, MustConnect, Continue
<1>7. CASE LoginDies
  BY <1>7 DEF LoginDies, MustConnect
<1>8. CASE CommandDone
  BY <1>8 DEF CommandDone, Leave
<1>9. ASSUME NEW e \in Errors, CommandRefused(e) PROVE Counts'
  BY <1>9 DEF CommandRefused, Continue, Leave
<1>10. CASE CommandUnanswered
  BY <1>10 DEF CommandUnanswered, Continue
<1>11. CASE SaveReturns
  BY <1>11 DEF SaveReturns
<1>12. CASE ReadReturns
  BY <1>12 DEF ReadReturns, ReadFailed
<1>13. CASE ReadDies
  BY <1>13 DEF ReadDies
<1>14. CASE UNCHANGED vars
  BY <1>14 DEF vars
<1> QED
  BY <1>1, <1>2, <1>3, <1>4, <1>5, <1>6, <1>7, <1>8, <1>9, <1>10, <1>11, <1>12,
     <1>13, <1>14 DEF Next, Step

\* Every step keeps the flags Boolean.
LEMMA FlagsStep == Flags /\ [Next]_vars => Flags'
<1> SUFFICES ASSUME Flags, [Next]_vars PROVE Flags'
  OBVIOUS
<1> USE DEF Flags
<1>1. ASSUME NEW p \in Positions, SaveNextReqPos(p) PROVE Flags'
  BY <1>1 DEF SaveNextReqPos, Begin
<1>2. CASE ReadNextReqPos
  BY <1>2 DEF ReadNextReqPos, Begin
<1>3. CASE UseConnection
  BY <1>3 DEF UseConnection
<1>4. CASE ConnectFails
  BY <1>4 DEF ConnectFails, MustConnect, Continue
<1>5. CASE LogsIn
  BY <1>5 DEF LogsIn, MustConnect
<1>6. CASE LoginRefused
  BY <1>6 DEF LoginRefused, MustConnect, Continue
<1>7. CASE LoginDies
  BY <1>7 DEF LoginDies, MustConnect
<1>8. CASE CommandDone
  BY <1>8 DEF CommandDone, Leave
<1>9. ASSUME NEW e \in Errors, CommandRefused(e) PROVE Flags'
  BY <1>9 DEF CommandRefused, Continue, Leave
<1>10. CASE CommandUnanswered
  BY <1>10 DEF CommandUnanswered, Continue
<1>11. CASE SaveReturns
  BY <1>11 DEF SaveReturns
<1>12. CASE ReadReturns
  BY <1>12 DEF ReadReturns, ReadFailed
<1>13. CASE ReadDies
  BY <1>13 DEF ReadDies
<1>14. CASE UNCHANGED vars
  BY <1>14 DEF vars
<1> QED
  BY <1>1, <1>2, <1>3, <1>4, <1>5, <1>6, <1>7, <1>8, <1>9, <1>10, <1>11, <1>12,
     <1>13, <1>14 DEF Next, Step

\* Every step keeps the other variables' types.
LEMMA ValuesStep == Values /\ [Next]_vars => Values'
<1> SUFFICES ASSUME Values, [Next]_vars PROVE Values'
  OBVIOUS
<1> USE DEF Values, call, NoReply, Errors
<1>1. ASSUME NEW p \in Positions, SaveNextReqPos(p) PROVE Values'
  BY <1>1 DEF SaveNextReqPos, Begin
<1>2. CASE ReadNextReqPos
  BY <1>2 DEF ReadNextReqPos, Begin
<1>3. CASE UseConnection
  BY <1>3 DEF UseConnection
<1>4. CASE ConnectFails
  BY <1>4 DEF ConnectFails, MustConnect, Continue
<1>5. CASE LogsIn
  BY <1>5 DEF LogsIn, MustConnect
<1>6. CASE LoginRefused
  BY <1>6 DEF LoginRefused, MustConnect, Continue
<1>7. CASE LoginDies
  BY <1>7 DEF LoginDies, MustConnect
<1>8. CASE CommandDone
  BY <1>8 DEF CommandDone, Leave
<1>9. ASSUME NEW e \in Errors, CommandRefused(e) PROVE Values'
  BY <1>9 DEF CommandRefused, Continue, Leave
<1>10. CASE CommandUnanswered
  BY <1>10 DEF CommandUnanswered, Continue
<1>11. CASE SaveReturns
  BY <1>11 DEF SaveReturns
<1>12. CASE ReadReturns
  BY <1>12 DEF ReadReturns, ReadFailed
<1>13. CASE ReadDies
  BY <1>13 DEF ReadDies
<1>14. CASE UNCHANGED vars
  BY <1>14 DEF vars
<1> QED
  BY <1>1, <1>2, <1>3, <1>4, <1>5, <1>6, <1>7, <1>8, <1>9, <1>10, <1>11, <1>12,
     <1>13, <1>14 DEF Next, Step

\* Every step keeps the account of a result that reads 0.
LEMMA ZeroStep == Values /\ ZeroExplained /\ [Next]_vars => ZeroExplained'
<1> SUFFICES ASSUME Values, ZeroExplained, [Next]_vars PROVE ZeroExplained'
  OBVIOUS
<1> USE DEF Values, ZeroExplained, call
<1>1. ASSUME NEW p \in Positions, SaveNextReqPos(p) PROVE ZeroExplained'
  BY <1>1 DEF SaveNextReqPos, Begin
<1>2. CASE ReadNextReqPos
  BY <1>2 DEF ReadNextReqPos, Begin
<1>3. CASE UseConnection
  BY <1>3 DEF UseConnection
<1>4. CASE ConnectFails
  BY <1>4 DEF ConnectFails, MustConnect, Continue
<1>5. CASE LogsIn
  BY <1>5 DEF LogsIn, MustConnect
<1>6. CASE LoginRefused
  BY <1>6 DEF LoginRefused, MustConnect, Continue
<1>7. CASE LoginDies
  BY <1>7 DEF LoginDies, MustConnect
<1>8. CASE CommandDone
  BY <1>8 DEF CommandDone, Leave
<1>9. ASSUME NEW e \in Errors, CommandRefused(e) PROVE ZeroExplained'
  BY <1>9 DEF CommandRefused, Continue, Leave
<1>10. CASE CommandUnanswered
  BY <1>10 DEF CommandUnanswered, Continue
<1>11. CASE SaveReturns
  BY <1>11 DEF SaveReturns
<1>12. CASE ReadReturns
  BY <1>12 DEF ReadReturns, ReadFailed
<1>13. CASE ReadDies
  BY <1>13 DEF ReadDies
<1>14. CASE UNCHANGED vars
  BY <1>14 DEF vars
<1> QED
  BY <1>1, <1>2, <1>3, <1>4, <1>5, <1>6, <1>7, <1>8, <1>9, <1>10, <1>11, <1>12,
     <1>13, <1>14 DEF Next, Step

\* Every step keeps the reply of a read equal to what is stored.
LEMMA ReplyStep == Values /\ ReplyIsStored /\ [Next]_vars => ReplyIsStored'
<1> SUFFICES ASSUME Values, ReplyIsStored, [Next]_vars PROVE ReplyIsStored'
  OBVIOUS
<1> USE ReplyAssumption DEF Values, ReplyIsStored, call, NoReply, Errors, ReplyAssumption
<1>1. ASSUME NEW p \in Positions, SaveNextReqPos(p) PROVE ReplyIsStored'
  BY <1>1 DEF SaveNextReqPos, Begin
<1>2. CASE ReadNextReqPos
  BY <1>2 DEF ReadNextReqPos, Begin
<1>3. CASE UseConnection
  BY <1>3 DEF UseConnection
<1>4. CASE ConnectFails
  BY <1>4 DEF ConnectFails, MustConnect, Continue
<1>5. CASE LogsIn
  BY <1>5 DEF LogsIn, MustConnect
<1>6. CASE LoginRefused
  BY <1>6 DEF LoginRefused, MustConnect, Continue
<1>7. CASE LoginDies
  BY <1>7 DEF LoginDies, MustConnect
<1>8. CASE CommandDone
  BY <1>8 DEF CommandDone, Leave
<1>9. ASSUME NEW e \in Errors, CommandRefused(e) PROVE ReplyIsStored'
  BY <1>9 DEF CommandRefused, Continue, Leave
<1>10. CASE CommandUnanswered
  BY <1>10 DEF CommandUnanswered, Continue
<1>11. CASE SaveReturns
  BY <1>11 DEF SaveReturns
<1>12. CASE ReadReturns
  BY <1>12 DEF ReadReturns, ReadFailed
<1>13. CASE ReadDies
  BY <1>13 DEF ReadDies
<1>14. CASE UNCHANGED vars
  BY <1>14 DEF vars
<1> QED
  BY <1>1, <1>2, <1>3, <1>4, <1>5, <1>6, <1>7, <1>8, <1>9, <1>10, <1>11, <1>12,
     <1>13, <1>14 DEF Next, Step

\* Every step keeps the two facts about first tries.
LEMMA TryStep ==
    FirstTry /\ LeftoverServesOneTry /\ [Next]_vars => (FirstTry /\ LeftoverServesOneTry)'
<1> SUFFICES ASSUME FirstTry, LeftoverServesOneTry, [Next]_vars
             PROVE (FirstTry /\ LeftoverServesOneTry)'
  OBVIOUS
<1> USE DEF FirstTry, LeftoverServesOneTry
<1>1. ASSUME NEW p \in Positions, SaveNextReqPos(p) PROVE (FirstTry /\ LeftoverServesOneTry)'
  BY <1>1 DEF SaveNextReqPos, Begin
<1>2. CASE ReadNextReqPos
  BY <1>2 DEF ReadNextReqPos, Begin
<1>3. CASE UseConnection
  BY <1>3 DEF UseConnection
<1>4. CASE ConnectFails
  BY <1>4 DEF ConnectFails, MustConnect, Continue
<1>5. CASE LogsIn
  BY <1>5 DEF LogsIn, MustConnect
<1>6. CASE LoginRefused
  BY <1>6 DEF LoginRefused, MustConnect, Continue
<1>7. CASE LoginDies
  BY <1>7 DEF LoginDies, MustConnect
<1>8. CASE CommandDone
  BY <1>8 DEF CommandDone, Leave
<1>9. ASSUME NEW e \in Errors, CommandRefused(e) PROVE (FirstTry /\ LeftoverServesOneTry)'
  BY <1>9 DEF CommandRefused, Continue, Leave
<1>10. CASE CommandUnanswered
  BY <1>10 DEF CommandUnanswered, Continue
<1>11. CASE SaveReturns
  BY <1>11 DEF SaveReturns
<1>12. CASE ReadReturns
  BY <1>12 DEF ReadReturns, ReadFailed
<1>13. CASE ReadDies
  BY <1>13 DEF ReadDies
<1>14. CASE UNCHANGED vars
  BY <1>14 DEF vars
<1> QED
  BY <1>1, <1>2, <1>3, <1>4, <1>5, <1>6, <1>7, <1>8, <1>9, <1>10, <1>11, <1>12,
     <1>13, <1>14 DEF Next, Step

\* Every step keeps the invariant.
LEMMA RedisStep == IInv /\ [Next]_vars => IInv'
BY CountsStep, FlagsStep, ValuesStep, ZeroStep, ReplyStep, TryStep DEF IInv, TypeOK

\* The invariant holds in every reachable state.
LEMMA RedisInvariant == Spec => []IInv
BY RedisInit, RedisStep, PTL DEF Spec

\* Every variable of the Redis client keeps its type, the tries stay within
\* their bound and the result within the codes myredis.h:18 lists.
THEOREM RedisTypeCorrect == Spec => []TypeOK
<1>1. IInv => TypeOK
  BY DEF IInv
<1> QED
  BY RedisInvariant, <1>1, PTL

\* A connection left over from an earlier call, nobody logged in on it or in
\* error, serves no more than the first try of a call (myredis.cc:124-130).
THEOREM LeftoverBounded == Spec => []LeftoverServesOneTry
<1>1. IInv => LeftoverServesOneTry
  BY DEF IInv
<1> QED
  BY RedisInvariant, <1>1, PTL

\* Each action of the client is an action of the store, or no step of it.
LEMMA StoreStep == IInv /\ [Next]_vars => [Store!Next]_(Store!vars)
<1> SUFFICES ASSUME IInv, [Next]_vars PROVE [Store!Next]_(Store!vars)
  OBVIOUS
<1> USE DEF IInv, TypeOK, Flags, Values, call, Store!vars
<1>1. ASSUME NEW p \in Positions, SaveNextReqPos(p) PROVE Store!Save(p)
  BY <1>1 DEF SaveNextReqPos, Begin, Store!Save
<1>2. CASE ReadNextReqPos
  BY <1>2 DEF ReadNextReqPos, Begin, Store!Next, Store!Read
<1>3. CASE UseConnection
  BY <1>3 DEF UseConnection
<1>4. CASE ConnectFails
  BY <1>4 DEF ConnectFails, MustConnect, Continue
<1>5. CASE LogsIn
  BY <1>5 DEF LogsIn, MustConnect
<1>6. CASE LoginRefused
  BY <1>6 DEF LoginRefused, MustConnect, Continue
<1>7. CASE LoginDies
  BY <1>7 DEF LoginDies, MustConnect, Store!Next, Store!Die
<1>8. CASE CommandDone
  BY <1>8 DEF CommandDone, Leave, Store!Next, Store!Exchange
<1>9. ASSUME NEW e \in Errors, CommandRefused(e) PROVE [Store!Next]_(Store!vars)
  BY <1>9 DEF CommandRefused, Continue, Leave
<1>10. CASE CommandUnanswered
  BY <1>10 DEF CommandUnanswered, Continue, Store!Next, Store!Exchange
<1>11. CASE SaveReturns
  BY <1>11 DEF SaveReturns, Store!Next, Store!Return
<1>12. CASE ReadReturns
  BY <1>12 DEF ReadReturns, ReplyIsStored, Store!Next, Store!Return
<1>13. CASE ReadDies
  <2>1. ret = 0
    BY <1>13 DEF ReadDies, ReadFailed, Counts
  <2>2. hungup
    BY <1>13, <2>1 DEF ReadDies, ZeroExplained
  <2> QED
    BY <1>13, <2>2 DEF ReadDies, Store!Next, Store!Die
<1>14. CASE UNCHANGED vars
  BY <1>14 DEF vars
<1> QED
  BY <1>1, <1>2, <1>3, <1>4, <1>5, <1>6, <1>7, <1>8, <1>9, <1>10, <1>11, <1>12,
     <1>13, <1>14 DEF Next, Step, Store!Next

\* What Subscriber assumes of the position kept in Redis holds of this client:
\* a save stores or leaves, a read gives what is stored or nothing, and the
\* process dies in a call only if Redis hung up on it.
THEOREM StoreImplemented == Spec => ImplementsStore
<1>1. Init => Store!Init
  BY DEF Init, Store!Init
<1>2. IInv /\ [Next]_vars => [Store!Next]_(Store!vars)
  BY StoreStep
<1> QED
  BY <1>1, <1>2, RedisInvariant, PTL DEF Spec, ImplementsStore, Store!Spec
=============================================================================
