------------------------------ MODULE Startup ------------------------------
(***************************************************************************)
(* main and Process::Init: several starts of the program on one machine,   *)
(* one after the other or at once.  Each loads its configuration, looks    *)
(* into the pid file, becomes a daemon if told to, writes the pid file and *)
(* connects with the settings it has found.                                *)
(*                                                                         *)
(* The configuration is loaded by one process at a time: its variables are *)
(* that process's own memory, and what it goes on with is kept in conf.    *)
(***************************************************************************)
EXTENDS ConfigFile, Password

CONSTANTS
    Procs,      \* the starts
    Pids,       \* the process ids there are
    Scenarios,  \* a configuration file with its password, the starts, who among
                \* them are daemons
    Faults      \* "file" for fopen, "connect" for MySQL, "kill" for processes that
                \* are killed, "others" that come and go

ASSUME PidsAssumption == Pids \subseteq Nat \ {0}

\* password: what was meant, how it is written, whether that is encoded, and
\* whether it is what Encode makes of it (characters of no meaning aside).
SecretShape(s) == DOMAIN s = {"plain", "text", "need_decode", "whole"}
ASSUME ScenariosAssumption ==
    \A s \in Scenarios : s.file \in Seq(FileLines) /\ SecretShape(s.password)

NoFile == -1
Empty == 0
Stages == {"new", "load", "check", "fork", "open", "write", "connect", "run", "gone"}

VARIABLES
    stage, daemon,
    pid,       \* the id each process has, 0 for none
    pidfile,   \* what atol makes of the pid file, if there is one
    others,    \* ids of processes that are not ours
    conf,      \* the address of MySQL each process has loaded
    password,  \* that of the configuration
    finals,    \* what sFinalPasswd can be
    given,     \* sFinalPasswd of each process that has asked MySQL for a connection
    \* History, read by no action.
    unguarded  \* has a start passed its check while another had not written
               \* the file yet, or a daemon gone on without writing it?

secretVars == <<password, finals, given>>
procVars == <<stage, daemon, pid, pidfile, others, conf, secretVars, unguarded>>
vars == <<configVars, procVars>>

NotAsked == <<>>

\* The first half of Connect: the same for every process.
FinalPasswords(secret) == IF secret.need_decode THEN Decoded(secret.text) ELSE {secret.text}

Ours == {pid[p] : p \in Procs} \ {0}
Alive == Ours \union others
Free == Pids \ Alive

Init ==
    /\ \E s \in Scenarios :
          /\ file = s.file
          /\ password = s.password /\ finals = FinalPasswords(password)
          /\ stage = [p \in Procs |-> IF p \in s.starts THEN "new" ELSE "gone"]
          /\ \E d \in s.daemons : daemon = [p \in Procs |-> p \in d]
    /\ FreshConfig
    /\ pid = [p \in Procs |-> 0] /\ pidfile = NoFile /\ others = {}
    /\ conf = [p \in Procs |-> None] /\ given = [p \in Procs |-> NotAsked]
    /\ unguarded = FALSE

Moves(p, from, to) == stage[p] = from /\ stage' = [stage EXCEPT ![p] = to]
Gone(p) ==
    /\ stage' = [stage EXCEPT ![p] = "gone"] /\ pid' = [pid EXCEPT ![p] = 0]
    /\ given' = [given EXCEPT ![p] = NotAsked]

\* Bound: of the free ids always the same is taken before the forks.
Start(p) ==
    /\ Moves(p, "new", "load")
    /\ \A q \in Procs : stage[q] # "load"
    /\ Free # {} /\ pid' = [pid EXCEPT ![p] = CHOOSE i \in Free : TRUE]
    /\ FreshConfigNext
    /\ UNCHANGED <<file, daemon, pidfile, others, conf, secretVars, unguarded>>

LoadLine == Load /\ (\E p \in Procs : stage[p] = "load") /\ UNCHANGED procVars

Loaded(p) ==
    /\ pass = "loaded"
    /\ Moves(p, "load", "check")
    /\ conf' = [conf EXCEPT ![p] = GetConfig("mysql", "mysql_ip")]
    /\ UNCHANGED <<configVars, daemon, pid, pidfile, others, secretVars, unguarded>>

LoadDied(p) ==
    /\ pass = "died" /\ stage[p] = "load"
    /\ Gone(p)
    /\ UNCHANGED <<configVars, daemon, pidfile, others, conf, password, finals, unguarded>>

(***************************************************************************)
(* The pid file.                                                           *)
(***************************************************************************)
\* Defect: an empty file names nobody.
IsProcessExistIfNamed(same) == pidfile \in Ours \union same

\* IsProcessExist: kill(pid, 0) finds our processes and, of the others, those of
\* the same user; for somebody else's it fails as if there were none.  Of an empty
\* file atol makes 0, the caller's own process group, which is always there.
IsProcessExist(same) == pidfile = Empty \/ pidfile \in Ours \union same

Refused(p) ==
    /\ stage[p] = "check"
    /\ \E same \in SUBSET others : IsProcessExist(same)
    /\ Gone(p)
    /\ UNCHANGED <<configVars, daemon, pidfile, others, conf, password, finals, unguarded>>

\* Another start is on its way from its check to its line in the file.
Unwritten(p) == \E q \in Procs \ {p} : daemon[q] /\ stage[q] \in {"fork", "open", "write"}

\* Only a daemon writes the file; one in the foreground goes on.
Passed(p) ==
    /\ \E same \in SUBSET others : ~IsProcessExist(same)
    /\ Moves(p, "check", IF daemon[p] THEN "fork" ELSE "connect")
    /\ unguarded' = (unguarded \/ Unwritten(p))
    /\ UNCHANGED <<configVars, daemon, pid, pidfile, others, conf, secretVars>>

\* Two forks: the process that goes on has an id of its own.
Fork(p) ==
    /\ Moves(p, "fork", "open")
    /\ \E i \in Free : pid' = [pid EXCEPT ![p] = i]
    /\ UNCHANGED <<configVars, daemon, pidfile, others, conf, secretVars, unguarded>>

\* fopen("w+") empties the file.
OpenPidFile(p) ==
    /\ Moves(p, "open", "write")
    /\ pidfile' = Empty
    /\ UNCHANGED <<configVars, daemon, pid, others, conf, secretVars, unguarded>>

\* Daemon returns -1 if it cannot; Init does not look.
OpenPidFileFails(p) ==
    /\ "file" \in Faults
    /\ Moves(p, "open", "connect")
    /\ unguarded' = TRUE
    /\ UNCHANGED <<configVars, daemon, pid, pidfile, others, conf, secretVars>>

\* Defect: the id is that of the child between the two forks, which is gone.
WritePidFileOfChild(p) ==
    /\ Moves(p, "write", "connect")
    /\ pidfile' \in Free
    /\ UNCHANGED <<configVars, daemon, pid, others, conf, secretVars, unguarded>>

\* Over a line somebody wrote in between, a shorter id leaves a mixture.
WritePidFile(p) ==
    /\ Moves(p, "write", "connect")
    /\ pidfile' \in {pid[p]} \union (IF pidfile = Empty THEN {} ELSE Pids)
    /\ UNCHANGED <<configVars, daemon, pid, others, conf, secretVars, unguarded>>

(***************************************************************************)
(* Connecting, running, ending.                                            *)
(***************************************************************************)
\* Connect gives MySQL the password.
Connect(p) ==
    /\ conf[p] # None
    /\ Moves(p, "connect", "run")
    /\ \E final \in finals \ {Undecipherable} : given' = [given EXCEPT ![p] = final]
    /\ UNCHANGED <<configVars, daemon, pid, pidfile, others, conf, password, finals, unguarded>>

\* Of a password that cannot be decoded Connect returns false, which is 0:
\* Init goes on without a connection.
ConnectSkipped(p) ==
    /\ conf[p] # None /\ Undecipherable \in finals
    /\ Moves(p, "connect", "run")
    /\ UNCHANGED <<configVars, daemon, pid, pidfile, others, conf, secretVars, unguarded>>

\* Without the section there is no address to connect to.
ConnectFails(p) ==
    /\ stage[p] = "connect"
    /\ conf[p] = None \/ "connect" \in Faults
    /\ Gone(p)
    /\ UNCHANGED <<configVars, daemon, pidfile, others, conf, password, finals, unguarded>>

\* A kill at any time; nobody removes the pid file.
Killed(p) ==
    /\ "kill" \in Faults
    /\ stage[p] \notin {"new", "load", "gone"}
    /\ Gone(p)
    /\ UNCHANGED <<configVars, daemon, pidfile, others, conf, password, finals, unguarded>>

\* A process that is not ours takes an id that is free, and gives it back.
\* Bounds: one at a time, only while it can matter, and never an id that a start
\* to come or a fork is short of.
OtherProcess ==
    /\ "others" \in Faults
    /\ pidfile \in Pids /\ \A p \in Procs : stage[p] # "load"
    /\ \/ /\ others = {} /\ Cardinality(Free) > Cardinality({p \in Procs : stage[p] = "new"}) + 1
          /\ \E i \in Free : others' = {i}
       \/ others # {} /\ others' = {}
    /\ UNCHANGED <<configVars, stage, daemon, pid, pidfile, conf, secretVars, unguarded>>

Step(p) ==
    \/ Loaded(p) \/ LoadDied(p) \/ Refused(p) \/ Passed(p)
    \/ Fork(p) \/ OpenPidFile(p) \/ OpenPidFileFails(p) \/ WritePidFile(p)
    \/ Connect(p) \/ ConnectSkipped(p) \/ ConnectFails(p)

Next ==
    \/ LoadLine
    \/ \E p \in Procs : Start(p) \/ Step(p) \/ Killed(p)
    \/ OtherProcess

Spec == Init /\ [][Next]_vars

\* A started process runs until it waits for MySQL.
FairSpec == Spec /\ WF_vars(LoadLine) /\ \A p \in Procs : WF_vars(Step(p))

(***************************************************************************)
(* Properties.                                                             *)
(***************************************************************************)
\* Every variable has its type (config.h, process.h).
TypeOK ==
    /\ pass \in {"common", "schema", "loaded", "died"}
    /\ at \in 1 .. Len(file) + 1
    /\ keys \in Seq(DOMAIN file)
    /\ {db, table, cname, cindex} \subseteq {None} \union DOMAIN file
    /\ None \in {db, table} /\ None \in {cname, cindex}
    /\ stage \in [Procs -> Stages] /\ daemon \in [Procs -> BOOLEAN]
    /\ pid \in [Procs -> Pids \union {0}] /\ others \subseteq Pids
    /\ pidfile \in Pids \union {NoFile, Empty}
    /\ conf \in [Procs -> {None} \union DOMAIN file] /\ unguarded \in BOOLEAN
    /\ given \in [Procs -> Seq(-2 .. 255)] /\ finals \subseteq Seq(-2 .. 255)

\* A section that another one follows is read back as it stands in the file,
\* in the keys the program asks for,
\* whatever sections surround it or repeat it, though schema sections are
\* collected with the common ones; one that ends the file is not found at all
\* (LoadCommConf, config.cc:43-55).
SettingsFound ==
    pass = "loaded" =>
        \A sec \in {"mysql", "redis"}, key \in {"mysql_ip", "redis_ip", "password"} :
            GetConfig(sec, key) =
                IF \E n \in SectionsNamed({sec}) : n = Min(SectionsNamed({sec})) /\ Followed(n)
                THEN Stands(sec, key)
                ELSE None

\* The schemas are those of the file, each with its own database and table and
\* with the columns that stand below it and above the next, over halves in
\* either order, common sections in between, and the two passes
\* (LoadSchemaConf, config.cc:75-157).
SchemasFound ==
    pass = "loaded" /\ PairsWhole =>
        LET tops == SectionsNamed({"schema"})
            Nth(n) == Cardinality({m \in tops : m <= n})
        IN  /\ Len(schemas) = Cardinality(tops)
            /\ \A n \in tops :
                LET s == schemas[Nth(n)]
                    cols == ColumnsBelow(n)
                IN  /\ s.database \in InSection(n, "database") /\ s.table \in InSection(n, "table")
                    /\ Len(s.columns) = Cardinality(cols)
                    /\ \A c \in cols :
                          LET col == s.columns[Cardinality({b \in cols : b <= c})]
                          IN  /\ col.name \in InSection(c, "column_name")
                              /\ col.index \in InSection(c, "column_index")

\* The password MySQL is given is the one that was meant, and a connection is
\* asked for at all, whatever characters of no meaning the text has between
\* and however its end is filled up, as long as a buffer of 64 bytes can hold
\* its blocks (mysqlProcess.cc:25-39, util.cc:27-91).
PasswordKept ==
    password.whole /\ Len(password.plain) < SwapSize =>
        \A p \in Procs : stage[p] = "run" => given[p] = password.plain

\* Unless a start ever passed its check before another had written the pid
\* file, or one could not write it, at most one daemon is alive behind the
\* check, over kills, stale files and ids used again (process.cc:77-93, 44-52).
OneDaemon ==
    LET Behind(p) == daemon[p] /\ stage[p] \in {"fork", "open", "write", "connect", "run"}
    IN  unguarded \/ \A p, q \in Procs : Behind(p) /\ Behind(q) => p = q

\* A daemon killed between emptying the file and writing it leaves a file that
\* lets nobody pass any more, for as long as nobody was at it already:
\* kill(0, 0) always succeeds (process.cc:44-50, 83-88).
EmptyFileStays ==
    [][pidfile = Empty /\ (\A p \in Procs : stage[p] \notin {"fork", "open", "write"}) =>
          /\ pidfile' = Empty
          /\ \A p \in Procs : stage[p] = "check" => stage'[p] \in {"check", "gone"}]_vars

\* Every start comes to an end of its own: it runs, or is refused or dies;
\* no file makes the loader go on for ever (main).
StartsEnd == \A p \in Procs : stage[p] = "load" ~> stage[p] \in {"run", "gone"}
=============================================================================
