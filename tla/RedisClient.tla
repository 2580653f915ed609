---------------------------- MODULE RedisClient ----------------------------
(***************************************************************************)
(* MyRedis as Business uses it: RedisCmdNoReply (hmset, from               *)
(* SaveNextReqPos) and RedisCmdWithReply (hmget, from ReadNextReqPos), each *)
(* a loop of up to three tries over a connection that outlives the call.   *)
(*                                                                         *)
(* One action is one blocking exchange with Redis and the code up to the   *)
(* next one.  Redis is not under src/: a connection attempt, the password  *)
(* and a command each have every outcome the code tells apart, whether     *)
(* somebody is logged in or not (it may not ask for a password), and a     *)
(* command without a reply may have been executed or not.  hmget is always *)
(* answered with an array, so the nil reply is not among the outcomes.     *)
(***************************************************************************)
EXTENDS Integers

CONSTANTS
    Positions,      \* what can be saved
    NoPos,          \* nothing has been saved, or nothing was read
    NeedsPassword,  \* m_bRedisNeedPassword
    Tries           \* the 3 of both loops

Errors == {"readonly", "noscript", "error"}
NoReply == "none"

ASSUME NoPosAssumption == NoPos \notin Positions
ASSUME ReplyAssumption ==
    (Positions \union {NoPos}) \intersect (Errors \union {NoReply}) = {}
ASSUME PasswordAssumption == NeedsPassword \in BOOLEAN
ASSUME TriesAssumption == Tries \in Nat \ {0}

VARIABLES
    at,        \* where the call is
    op,        \* which call
    arg,       \* the position a save is given
    conn,      \* m_Redis: NULL, in error, not logged in, usable
    i,
    again,     \* bTryAgain
    readOnly,  \* bReadOnlyError, set once per call and never cleared
    ret,
    reply,     \* m_InnerReply of a save, m_Reply of a read; its value if it has one
    stored,    \* binlogsub_pos_hash in Redis
    got,       \* what ReadNextReqPos handed over last
    hungup     \* history: Redis closed a connection during this call

vars == <<at, op, arg, conn, i, again, readOnly, ret, reply, stored, got, hungup>>
call == <<op, arg>>

\* MyRedis::Init has run; Process::Init goes on whatever became of it.
Init ==
    /\ at = "idle" /\ op = "save" /\ arg = NoPos
    /\ conn \in {"none", "ready"} \union (IF NeedsPassword THEN {"plain"} ELSE {})
    /\ i = 0 /\ again = FALSE /\ readOnly = FALSE /\ ret = -1
    /\ reply = NoReply
    /\ stored = NoPos /\ got = NoPos
    /\ hungup = FALSE

Begin(o, p) ==
    /\ at = "idle"
    /\ at' = "loop" /\ op' = o /\ arg' = p
    /\ i' = 0 /\ again' = FALSE /\ readOnly' = FALSE /\ ret' = -1
    /\ reply' = NoReply
    /\ hungup' = FALSE
    /\ UNCHANGED <<conn, stored, got>>

SaveNextReqPos(p) == Begin("save", p)
ReadNextReqPos == Begin("read", NoPos)

\* Defect: one try too many.
ContinueOneMore(r) ==
    /\ ret' = r
    /\ again' = TRUE
    /\ i' = i + 1
    /\ at' = IF i' <= Tries THEN "loop" ELSE "return"

\* `continue`: its while condition still counts the tries.
Continue(r) ==
    /\ ret' = r
    /\ again' = TRUE
    /\ i' = i + 1
    /\ at' = IF i' < Tries THEN "loop" ELSE "return"

Leave(r) == ret' = r /\ again' = FALSE /\ at' = "return" /\ i' = i

\* A first try takes the connection it finds, in whatever state.
UseConnection ==
    /\ at = "loop"
    /\ ~again /\ conn # "none"
    /\ at' = "command"
    /\ UNCHANGED <<call, conn, i, again, readOnly, ret, reply, stored, got, hungup>>

\* A retry drops the connection and the reply of the try before.
MustConnect == at = "loop" /\ (again \/ conn = "none")

\* redisConnect returns NULL, or a context in error.
ConnectFails ==
    /\ MustConnect
    /\ conn' \in {"none", "broken"}
    /\ Continue(ret)
    /\ reply' = NoReply
    /\ UNCHANGED <<call, readOnly, stored, got, hungup>>

\* Connected, and Auth returned 0.
LogsIn ==
    /\ MustConnect
    /\ conn' = "ready"
    /\ ret' = 0
    /\ at' = "command"
    /\ reply' = NoReply
    /\ UNCHANGED <<call, i, again, readOnly, stored, got, hungup>>

\* Defect: Auth's result is not looked at.
LoginRefusedIgnored ==
    /\ MustConnect
    /\ NeedsPassword
    /\ conn' = "plain"
    /\ ret' = -1
    /\ at' = "command"
    /\ reply' = NoReply
    /\ UNCHANGED <<call, i, again, readOnly, stored, got, hungup>>

\* Auth got an error: the connection is kept, though not logged in.
LoginRefused ==
    /\ MustConnect
    /\ NeedsPassword
    /\ conn' = "plain"
    /\ Continue(-1)
    /\ reply' = NoReply
    /\ UNCHANGED <<call, readOnly, stored, got, hungup>>

\* Auth got no reply: it looks at the type of a null pointer.
LoginDies ==
    /\ MustConnect
    /\ NeedsPassword
    /\ at' = "dead"
    /\ hungup' = TRUE
    /\ UNCHANGED <<call, conn, i, again, readOnly, ret, reply, stored, got>>

\* The command is executed: a save stores its position, a read is answered
\* with what is stored.
CommandDone ==
    /\ at = "command"
    /\ conn # "broken"
    /\ stored' = IF op = "save" THEN arg ELSE stored
    /\ reply' = stored'
    /\ Leave(0)
    /\ UNCHANGED <<call, conn, readOnly, got, hungup>>

\* An error reply.  Once one of the call was READONLY, each further one is
\* taken for that.  A save forgets its -3 or -4 at once: ret = 0 follows.
CommandRefused(e) ==
    /\ at = "command"
    /\ conn # "broken"
    /\ reply' = e
    /\ readOnly' = (readOnly \/ e = "readonly")
    /\ IF readOnly'
       THEN conn' = "none" /\ Continue(-2)
       ELSE conn' = conn /\ Leave(IF op = "save" THEN 0
                                  ELSE IF e = "noscript" THEN -3 ELSE -4)
    /\ UNCHANGED <<call, stored, got, hungup>>

\* Defect: a command without a reply is not counted as a try.
CommandUnansweredUncounted ==
    /\ at = "command"
    /\ stored' \in {stored} \union (IF op = "save" /\ conn # "broken" THEN {arg} ELSE {})
    /\ hungup' = (hungup \/ conn # "broken")
    /\ reply' = NoReply
    /\ conn' = "none"
    /\ ret' = ret /\ again' = TRUE /\ i' = i /\ at' = "loop"
    /\ UNCHANGED <<call, readOnly, got>>

\* No reply: Redis closed the connection, before or after it executed the
\* command, or the connection was in error all along.  ret stays what it was.
CommandUnanswered ==
    /\ at = "command"
    /\ stored' \in {stored} \union (IF op = "save" /\ conn # "broken" THEN {arg} ELSE {})
    /\ hungup' = (hungup \/ conn # "broken")
    /\ reply' = NoReply
    /\ conn' = "none"
    /\ Continue(ret)
    /\ UNCHANGED <<call, readOnly, got>>

SaveReturns ==
    /\ at = "return"
    /\ op = "save"
    /\ at' = "idle"
    /\ reply' = NoReply
    /\ UNCHANGED <<call, conn, i, again, readOnly, ret, stored, got, hungup>>

\* Defect: only -1 counts as a failure.
ReadFailedIfMinusOne == ret = -1

\* The check Business makes before it follows the reply.
ReadFailed == ret < 0

\* A read that failed, or found nothing stored, hands nothing over.
ReadReturns ==
    /\ at = "return"
    /\ op = "read"
    /\ ReadFailed \/ reply \in Positions \union {NoPos}
    /\ got' = IF ReadFailed THEN NoPos ELSE reply
    /\ at' = "idle"
    /\ UNCHANGED <<call, conn, i, again, readOnly, ret, reply, stored, hungup>>

\* ReadNextReqPos follows a null reply, or the elements of an error.
ReadDies ==
    /\ at = "return"
    /\ op = "read"
    /\ ~ReadFailed /\ reply \notin Positions \union {NoPos}
    /\ at' = "dead"
    /\ UNCHANGED <<call, conn, i, again, readOnly, ret, reply, stored, got, hungup>>

Step ==
    \/ UseConnection \/ ConnectFails
    \/ LogsIn \/ LoginRefused \/ LoginDies
    \/ CommandDone \/ (\E e \in Errors : CommandRefused(e)) \/ CommandUnanswered
    \/ SaveReturns \/ ReadReturns \/ ReadDies

Next == (\E p \in Positions : SaveNextReqPos(p)) \/ ReadNextReqPos \/ Step

Spec == Init /\ [][Next]_vars

\* Every exchange with Redis ends: it answers or the connection does.
FairSpec == Spec /\ WF_vars(Step)

(***************************************************************************)
(* Properties.                                                             *)
(***************************************************************************)
Counts ==
    /\ i \in 0 .. Tries /\ ret \in -4 .. 0
    /\ at \in {"loop", "command"} => i < Tries
Flags == again \in BOOLEAN /\ readOnly \in BOOLEAN /\ hungup \in BOOLEAN
Values ==
    /\ at \in {"idle", "loop", "command", "return", "dead"}
    /\ op \in {"save", "read"}
    /\ arg \in Positions \union {NoPos}
    /\ op = "save" /\ at # "idle" => arg \in Positions
    /\ conn \in {"none", "broken", "plain", "ready"}
    /\ reply \in Positions \union {NoPos, NoReply} \union Errors
    /\ stored \in Positions \union {NoPos}
    /\ got \in Positions \union {NoPos}

\* Every variable has its type (myredis.h:40-46 and the locals of the loops).
TypeOK == Counts /\ Flags /\ Values

\* What Subscriber assumes of Redis is what this client delivers, over hangups,
\* refused logins, read-only replies and connections left over from an earlier
\* call: see PositionStore (business.cc:47, 56-72).
Store == INSTANCE PositionStore
         WITH call <- IF at \in {"idle", "dead"} THEN at ELSE op
ImplementsStore == Store!Spec

\* A connection on which nobody is logged in, or that is in error, serves the
\* first try of a call at most: a call that connects itself logs in first
\* (myredis.cc:124-130, 260-266).
LeftoverServesOneTry == at = "command" /\ conn # "ready" => i = 0 /\ ~again

\* Every call returns or kills the process: no outcome of any try loops
\* without counting (myredis.cc:204, 349).
Returns == at \notin {"idle", "dead"} ~> at \in {"idle", "dead"}

\* A command call returns 0 only if Redis executed the command: -1 stands for
\* no reply, -3 and -4 for an error (myredis.h:18).
ZeroMeansExecuted ==
    at = "return" /\ ret = 0 => reply \in Positions \union {NoPos}
=============================================================================
