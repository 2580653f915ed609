---------------------------- MODULE StartupProofs ----------------------------
(***************************************************************************)
(* Proofs about Startup: the pid file, for any number of starts, any       *)
(* process ids and any faults, the two passes of the configuration loader  *)
(* over every file, and the types of both.                                 *)
(***************************************************************************)
EXTENDS Startup, FiniteSetTheorems, TLAPS, WellFoundedInduction

(***************************************************************************)
(* The inductive invariant.  OneDaemon is not: a second daemon is kept out *)
(* by what stands in the file, so the file must be the first one's.        *)
(***************************************************************************)
PidTypes ==
    /\ stage \in [Procs -> Stages] /\ daemon \in [Procs -> BOOLEAN]
    /\ pid \in [Procs -> Pids \union {0}]
    /\ unguarded \in BOOLEAN

\* A process has an id from its start to its end.
Living == \A p \in Procs : stage[p] \notin {"new", "gone"} => pid[p] # 0

Racing(p) == daemon[p] /\ stage[p] \in {"fork", "open", "write"}
Settled(p) == daemon[p] /\ stage[p] \in {"connect", "run"}

\* The first daemon's line is in the file, or it alone is on its way there.
Guarded ==
    /\ \A p, q \in Procs : (Racing(p) \/ Settled(p)) /\ (Racing(q) \/ Settled(q)) => p = q
    /\ \A p \in Procs : Settled(p) => pidfile = pid[p]
    /\ \A p \in Procs : daemon[p] /\ stage[p] = "write" => pidfile = Empty

\* Only daemons fork.
OnlyDaemons == \A p \in Procs : stage[p] \in {"fork", "open", "write"} => daemon[p]

PidInv == PidTypes /\ Living /\ OnlyDaemons /\ (unguarded \/ Guarded)

\* A process with the id in the file is found there.
LEMMA NamedExists ==
    ASSUME PidTypes, NEW p \in Procs, pid[p] # 0, pidfile = pid[p]
    PROVE  \A same : IsProcessExist(same)
BY DEF IsProcessExist, Ours, PidTypes

\* A step of p that no other daemon sees: the file stays, and p is neither
\* nearer to it nor to running as a daemon.
LEMMA LeavesFile ==
    ASSUME PidInv, NEW p \in Procs, NEW s \in Stages, NEW i \in Pids \union {0},
           stage' = [stage EXCEPT ![p] = s], pid' = [pid EXCEPT ![p] = i],
           UNCHANGED <<daemon, pidfile, unguarded>>,
           s \in {"new", "gone"} \/ i # 0,
           \/ s \in {"new", "load", "check", "gone"}
           \/ s \in {"connect", "run"} /\ ~daemon[p]
           \/ s = "run" /\ stage[p] = "connect" /\ i = pid[p]
    PROVE  PidInv'
<1>1. PidTypes' /\ Living' /\ OnlyDaemons'
  BY DEF PidInv, PidTypes, Living, OnlyDaemons, Stages
<1>2. ASSUME Guarded PROVE Guarded'
  <2>1. \A q \in Procs : (Racing(q))' => Racing(q)
    BY DEF Racing, PidInv, PidTypes
  <2>2. \A q \in Procs : (Settled(q))' => Settled(q) /\ pid'[q] = pid[q]
    BY DEF Settled, PidInv, PidTypes
  <2>3. \A q \in Procs : daemon'[q] /\ stage'[q] = "write" => daemon[q] /\ stage[q] = "write"
    BY DEF PidInv, PidTypes
  <2> QED BY <1>2, <2>1, <2>2, <2>3 DEF Guarded
<1> QED BY <1>1, <1>2 DEF PidInv, PidTypes

LEMMA InitPidInv == ASSUME Init PROVE PidInv
<1>1. stage \in [Procs -> Stages] /\ \A p \in Procs : stage[p] \in {"new", "gone"}
  BY DEF Init, Stages
<1>2. daemon \in [Procs -> BOOLEAN]
  BY DEF Init
<1>3. pid \in [Procs -> Pids \union {0}] /\ unguarded \in BOOLEAN
  BY DEF Init
<1> QED BY <1>1, <1>2, <1>3 DEF PidInv, PidTypes, Living, OnlyDaemons, Guarded, Racing, Settled

(***************************************************************************)
(* Each step.                                                              *)
(***************************************************************************)
LEMMA StartSafe ==
    ASSUME PidInv, NEW p \in Procs, Start(p)
    PROVE  PidInv'
<1>1. PICK i \in Pids : pid' = [pid EXCEPT ![p] = i]
  <2>1. (CHOOSE i \in Free : TRUE) \in Free
    BY DEF Start
  <2> QED BY <2>1 DEF Start, Free
<1>2. i # 0
  BY PidsAssumption
<1> QED BY <1>1, <1>2, LeavesFile DEF Start, Moves, Stages

LEMMA GoneSafe ==
    ASSUME PidInv, NEW p \in Procs, Gone(p), UNCHANGED <<daemon, pidfile, unguarded>>
    PROVE  PidInv'
BY LeavesFile DEF Gone, Stages

\* A step on from one stage to the next with everything else as it was.
LEMMA MovesSafe ==
    ASSUME PidInv, NEW p \in Procs, NEW from, NEW to \in Stages, Moves(p, from, to),
           UNCHANGED <<daemon, pid, pidfile, unguarded>>, from \notin {"new", "gone"},
           \/ to = "check"
           \/ to = "connect" /\ ~daemon[p]
           \/ to = "run" /\ from = "connect"
    PROVE  PidInv'
<1>1. pid' = [pid EXCEPT ![p] = pid[p]] /\ pid[p] \in Pids \union {0} /\ pid[p] # 0
  BY DEF PidInv, PidTypes, Living, Moves
<1>2. stage' = [stage EXCEPT ![p] = to] /\ stage[p] = from
  BY DEF Moves
<1>3. \/ to = "check"
      \/ to = "connect" /\ ~daemon[p]
      \/ to = "run" /\ stage[p] = "connect"
  BY <1>2
<1>4. UNCHANGED <<daemon, pidfile, unguarded>>
  OBVIOUS
<1> QED BY <1>1, <1>2, <1>3, <1>4, LeavesFile

\* One that passes its check alone has nobody before it: a daemon that is
\* settled is named in the file.
LEMMA PassedSafe ==
    ASSUME PidInv, NEW p \in Procs, Passed(p)
    PROVE  PidInv'
<1> DEFINE to == IF daemon[p] THEN "fork" ELSE "connect"
<1>1. /\ stage[p] = "check" /\ stage' = [stage EXCEPT ![p] = to]
      /\ UNCHANGED <<daemon, pid, pidfile>> /\ \E same : ~IsProcessExist(same)
      /\ unguarded' = (unguarded \/ Unwritten(p))
  BY DEF Passed, Moves
<1>2. PidTypes' /\ Living' /\ OnlyDaemons'
  <2>1. unguarded' \in BOOLEAN
    BY <1>1 DEF PidInv, PidTypes
  <2>2. stage' \in [Procs -> Stages]
    BY <1>1 DEF PidInv, PidTypes, Stages
  <2> QED BY <1>1, <2>1, <2>2 DEF PidInv, PidTypes, Living, OnlyDaemons
<1>3. ASSUME ~unguarded' PROVE Guarded'
  <2>1. Guarded /\ \A q \in Procs \ {p} : ~Racing(q)
    BY <1>1, <1>3 DEF PidInv, Unwritten, Racing
  <2>2. \A q \in Procs : ~Settled(q)
    <3>1. SUFFICES ASSUME NEW q \in Procs, Settled(q) PROVE FALSE
      OBVIOUS
    <3>2. pidfile = pid[q] /\ pid[q] # 0
      BY <2>1, <3>1 DEF Guarded, Settled, PidInv, Living
    <3> QED BY <1>1, <3>2, NamedExists DEF PidInv
  <2>3. ~daemon[p] => ~(Settled(p))' /\ ~(Racing(p))'
    BY <1>1 DEF Settled, Racing
  <2>4. \A q \in Procs \ {p} : ~(Racing(q))' /\ ~(Settled(q))'
    BY <1>1, <2>1, <2>2 DEF Racing, Settled, PidInv, PidTypes
  <2>5. ~(Settled(p))' /\ ~(daemon'[p] /\ stage'[p] = "write")
    BY <1>1, <2>3 DEF Settled, PidInv, PidTypes
  <2>6. \A q \in Procs : daemon'[q] /\ stage'[q] = "write" => (Racing(q))'
    BY DEF Racing
  <2> QED BY <2>4, <2>5, <2>6 DEF Guarded
<1> QED BY <1>2, <1>3 DEF PidInv, PidTypes

\* A step of the one on its way to the file: nobody else is near it, so it is
\* enough that the file is right for this one afterwards.
LEMMA RaceSafe ==
    ASSUME PidInv, NEW p \in Procs, stage[p] \in {"fork", "open", "write"},
           NEW s \in {"open", "write", "connect"}, NEW i \in Pids,
           stage' = [stage EXCEPT ![p] = s], pid' = [pid EXCEPT ![p] = i],
           UNCHANGED daemon, unguarded' \in BOOLEAN, ~unguarded' => ~unguarded,
           Guarded /\ ~unguarded' /\ s = "write" => pidfile' = Empty,
           Guarded /\ ~unguarded' /\ s = "connect" => pidfile' = i
    PROVE  PidInv'
<1>1. PidTypes' /\ Living' /\ OnlyDaemons'
  BY PidsAssumption DEF PidInv, PidTypes, Living, OnlyDaemons, Stages
<1>2. ASSUME ~unguarded' PROVE Guarded'
  <2>1. Guarded /\ Racing(p)
    BY <1>2 DEF PidInv, OnlyDaemons, Racing
  <2>2. \A q \in Procs \ {p} : ~Racing(q) /\ ~Settled(q)
    BY <2>1 DEF Guarded
  <2>3. \A q \in Procs \ {p} : ~(Racing(q))' /\ ~(Settled(q))'
    BY <2>2 DEF Racing, Settled, PidInv, PidTypes
  <2>4. stage'[p] = s /\ pid'[p] = i
    BY DEF PidInv, PidTypes
  <2>5. (Settled(p))' => pidfile' = pid'[p]
    BY <1>2, <2>1, <2>4 DEF Settled
  <2>6. \A q \in Procs : daemon'[q] /\ stage'[q] = "write" => (Racing(q))'
    BY DEF Racing
  <2>7. daemon'[p] /\ stage'[p] = "write" => pidfile' = Empty
    BY <1>2, <2>1, <2>4
  <2> QED BY <2>3, <2>5, <2>6, <2>7 DEF Guarded
<1> QED BY <1>1, <1>2 DEF PidInv

LEMMA ForkSafe ==
    ASSUME PidInv, NEW p \in Procs, Fork(p)
    PROVE  PidInv'
<1>1. PICK i \in Pids : pid' = [pid EXCEPT ![p] = i]
  BY DEF Fork, Free
<1>2. stage[p] = "fork" /\ stage' = [stage EXCEPT ![p] = "open"]
      /\ UNCHANGED <<daemon, unguarded>>
  BY DEF Fork, Moves
<1>3. unguarded \in BOOLEAN
  BY DEF PidInv, PidTypes
<1> QED BY <1>1, <1>2, <1>3, RaceSafe

\* A stage on with the id it has.
LEMMA OpenPidFileSafe ==
    ASSUME PidInv, NEW p \in Procs, OpenPidFile(p) \/ OpenPidFileFails(p) \/ WritePidFile(p)
    PROVE  PidInv'
<1> DEFINE i == pid[p]
<1>1. stage[p] \in {"open", "write"} /\ UNCHANGED <<daemon, pid>>
  BY DEF OpenPidFile, OpenPidFileFails, WritePidFile, Moves
<1>2. i \in Pids /\ pid' = [pid EXCEPT ![p] = i]
  BY <1>1 DEF PidInv, PidTypes, Living
<1>3. unguarded \in BOOLEAN
  BY DEF PidInv, PidTypes
<1>4. CASE OpenPidFile(p)
  <2>1. stage' = [stage EXCEPT ![p] = "write"] /\ pidfile' = Empty /\ UNCHANGED unguarded
    BY <1>4 DEF OpenPidFile, Moves
  <2> HIDE DEF i
  <2> QED BY <1>1, <1>2, <1>3, <2>1, RaceSafe
<1>5. CASE OpenPidFileFails(p)
  <2>1. stage' = [stage EXCEPT ![p] = "connect"] /\ unguarded' = TRUE
    BY <1>5 DEF OpenPidFileFails, Moves
  <2> HIDE DEF i
  <2> QED BY <1>1, <1>2, <2>1, RaceSafe
<1>6. CASE WritePidFile(p)
  <2>1. stage[p] = "write" /\ stage' = [stage EXCEPT ![p] = "connect"] /\ UNCHANGED unguarded
    BY <1>6 DEF WritePidFile, Moves
  <2>2. ASSUME Guarded PROVE pidfile' = i
    <3>1. pidfile = Empty
      BY <2>1, <2>2 DEF Guarded, PidInv, OnlyDaemons
    <3> QED BY <1>6, <3>1 DEF WritePidFile
  <2> HIDE DEF i
  <2> QED BY <1>1, <1>2, <1>3, <2>1, <2>2, RaceSafe
<1> QED BY <1>4, <1>5, <1>6

LEMMA StepSafe ==
    ASSUME PidInv, NEW p \in Procs, Step(p)
    PROVE  PidInv'
<1>1. CASE LoadDied(p) \/ Refused(p) \/ ConnectFails(p)
  BY <1>1, GoneSafe DEF LoadDied, Refused, ConnectFails
<1>2. CASE Loaded(p)
  <2>1. Moves(p, "load", "check") /\ UNCHANGED <<daemon, pid, pidfile, unguarded>>
    BY <1>2 DEF Loaded
  <2> QED BY <2>1, MovesSafe DEF Stages
<1>3. CASE Connect(p) \/ ConnectSkipped(p)
  <2>1. Moves(p, "connect", "run") /\ UNCHANGED <<daemon, pid, pidfile, unguarded>>
    BY <1>3 DEF Connect, ConnectSkipped
  <2> QED BY <2>1, MovesSafe DEF Stages
<1>4. CASE Passed(p)
  BY <1>4, PassedSafe
<1>5. CASE Fork(p)
  BY <1>5, ForkSafe
<1>6. CASE OpenPidFile(p) \/ OpenPidFileFails(p) \/ WritePidFile(p)
  BY <1>6, OpenPidFileSafe
<1> QED BY <1>1, <1>2, <1>3, <1>4, <1>5, <1>6 DEF Step

LEMMA NextPidInv == ASSUME PidInv, [Next]_vars PROVE PidInv'
<1>1. CASE UNCHANGED <<stage, daemon, pid, pidfile, unguarded>>
  BY <1>1 DEF PidInv, PidTypes, Living, OnlyDaemons, Guarded, Racing, Settled
<1>2. ASSUME NEW p \in Procs, Start(p) PROVE PidInv'
  BY <1>2, StartSafe
<1>3. ASSUME NEW p \in Procs, Step(p) PROVE PidInv'
  BY <1>3, StepSafe
<1>4. ASSUME NEW p \in Procs, Killed(p) PROVE PidInv'
  BY <1>4, GoneSafe DEF Killed
<1>5. LoadLine \/ OtherProcess \/ UNCHANGED vars
      => UNCHANGED <<stage, daemon, pid, pidfile, unguarded>>
  BY DEF LoadLine, OtherProcess, vars, procVars
<1> QED BY <1>1, <1>2, <1>3, <1>4, <1>5 DEF Next

\* The invariant holds in every reachable state.
THEOREM PidInvAlways == Spec => []PidInv
<1>1. PidInv /\ [Next]_vars => PidInv'
  BY NextPidInv
<1> QED BY InitPidInv, <1>1, PTL DEF Spec

\* Unless a start ever passed its check while another was on its way to the
\* file, or one could not write it, at most one daemon is alive behind the
\* check, whatever starts, kills and foreign processes come in between
\* (process.cc:77-93, 44-52).
THEOREM OneDaemonAlways == Spec => []OneDaemon
<1>1. PidInv => OneDaemon
  BY DEF PidInv, Guarded, OneDaemon, Racing, Settled
<1> QED BY <1>1, PidInvAlways, PTL

(***************************************************************************)
(* The empty pid file.                                                     *)
(***************************************************************************)
LEMMA EmptyFileStep ==
    ASSUME PidInv, [Next]_vars, pidfile = Empty,
           \A p \in Procs : stage[p] \notin {"fork", "open", "write"}
    PROVE  /\ pidfile' = Empty
           /\ \A p \in Procs : stage[p] = "check" => stage'[p] \in {"check", "gone"}
<1>1. CASE UNCHANGED <<stage, pidfile>>
  BY <1>1
<1>2. ASSUME NEW p \in Procs, NEW s \in {"load", "check", "run", "gone"},
             stage' = [stage EXCEPT ![p] = s], UNCHANGED pidfile,
             stage[p] # "check" \/ s = "gone"
      PROVE  /\ pidfile' = Empty
             /\ \A q \in Procs : stage[q] = "check" => stage'[q] \in {"check", "gone"}
  BY <1>2 DEF PidInv, PidTypes
<1>3. ASSUME NEW p \in Procs, Start(p) \/ Loaded(p) \/ Connect(p) \/ ConnectSkipped(p)
      PROVE  \E s \in {"load", "check", "run"} :
                stage' = [stage EXCEPT ![p] = s] /\ UNCHANGED pidfile /\ stage[p] # "check"
  BY <1>3 DEF Start, Loaded, Connect, ConnectSkipped, Moves
<1>4. ASSUME NEW p \in Procs, LoadDied(p) \/ Refused(p) \/ ConnectFails(p) \/ Killed(p)
      PROVE  stage' = [stage EXCEPT ![p] = "gone"] /\ UNCHANGED pidfile
  BY <1>4 DEF LoadDied, Refused, ConnectFails, Killed, Gone
<1>5. ASSUME NEW p \in Procs,
             Passed(p) \/ Fork(p) \/ OpenPidFile(p) \/ OpenPidFileFails(p) \/ WritePidFile(p)
      PROVE  FALSE
  BY <1>5 DEF Passed, IsProcessExist, Fork, OpenPidFile, OpenPidFileFails, WritePidFile, Moves
<1>6. LoadLine \/ OtherProcess \/ UNCHANGED vars => UNCHANGED <<stage, pidfile>>
  BY DEF LoadLine, OtherProcess, vars, procVars
<1>7. CASE \E p \in Procs : Start(p) \/ Step(p) \/ Killed(p)
  <2>1. PICK p \in Procs : Start(p) \/ Step(p) \/ Killed(p)
    BY <1>7
  <2>2. \/ Start(p) \/ Loaded(p) \/ Connect(p) \/ ConnectSkipped(p)
        \/ LoadDied(p) \/ Refused(p) \/ ConnectFails(p) \/ Killed(p)
    BY <1>5, <2>1 DEF Step
  <2> QED BY <1>2, <1>3, <1>4, <2>2
<1> QED BY <1>1, <1>6, <1>7 DEF Next

\* Once the file is empty and nobody is on the way to it, it stays empty and
\* every start is refused, for any number of starts (process.cc:44-50, 83-88).
THEOREM EmptyFileAlwaysStays == Spec => EmptyFileStays
<1>1. PidInv /\ [Next]_vars =>
        [pidfile = Empty /\ (\A p \in Procs : stage[p] \notin {"fork", "open", "write"}) =>
            /\ pidfile' = Empty
            /\ \A p \in Procs : stage[p] = "check" => stage'[p] \in {"check", "gone"}]_vars
  BY EmptyFileStep
<1> QED BY <1>1, PidInvAlways, PTL DEF Spec, EmptyFileStays

(***************************************************************************)
(* The first pass of the loader, LoadCommConf, over every file: what the   *)
(* common sections say is what the program reads.                          *)
(***************************************************************************)
\* The settings the program asks for.
AskedSections == {"mysql", "redis"}
AskedKeys == {"mysql_ip", "redis_ip", "password"}

\* The keys of a schema section, and those above the first section, are not
\* dropped when a common section begins: the file must not have keys the
\* program asks for there.
CommonName(name) == name \notin SchemaLike \union {NoSection}
AskedInPlace(f) ==
    \A k \in 1 .. Len(f) : f[k].kind = "key" /\ f[k].name \in AskedKeys =>
        \E n \in 1 .. k - 1 :
            /\ f[n].kind = "section" /\ CommonName(f[n].name)
            /\ \A i \in n + 1 .. k - 1 : f[i].kind # "section"

FileOK == file \in Seq(FileLines) /\ AskedInPlace(file)

(***************************************************************************)
(* Numbers and lines.                                                      *)
(***************************************************************************)
\* The least of some natural numbers.
LEMMA LeastOf ==
    ASSUME NEW S, S \subseteq Nat, S # {}
    PROVE  Min(S) \in S /\ \A n \in S : Min(S) <= n
<1>1. PICK x \in S : \A y \in S : ~(<<y, x>> \in OpToRel(<, Nat))
  BY NatLessThanWellFounded, WFMin
<1>2. ASSUME NEW y \in S PROVE x <= y
  <2>1. ~(y < x)
    BY <1>1 DEF OpToRel
  <2>2. QED
    BY <2>1
<1>3. QED
  BY <1>2 DEF Min

LEMMA MinIs ==
    ASSUME NEW S, S \subseteq Nat, NEW n \in S, \A k \in S : n <= k
    PROVE  Min(S) = n
<1>1. Min(S) \in S /\ Min(S) <= n
  BY LeastOf
<1>2. n <= Min(S) /\ n \in Nat /\ Min(S) \in Nat
  BY <1>1
<1>3. QED
  BY <1>1, <1>2

\* No section begins on a line from lo up to hi.
Quiet(lo, hi) == \A i \in lo .. hi : ~IsSection(i)
\* The first section of that name is on line n; the next section is on line m.
FirstNamed(n, name) ==
    /\ n \in 1 .. Len(file) /\ IsSection(n) /\ file[n].name = name
    /\ \A i \in 1 .. n - 1 : IsSection(i) => file[i].name # name
NextSection(n, m) == m \in n + 1 .. Len(file) /\ IsSection(m) /\ Quiet(n + 1, m - 1)

LEMMA FirstNamedExists ==
    ASSUME FileOK, NEW name, NEW k \in 1 .. Len(file), IsSection(k), file[k].name = name
    PROVE  \E n \in 1 .. k : FirstNamed(n, name)
<1> DEFINE S == {n \in 1 .. Len(file) : IsSection(n) /\ file[n].name = name}
<1>1. Len(file) \in Nat /\ k \in S /\ S \subseteq Nat
  BY DEF FileOK
<1>2. Min(S) \in S /\ \A n \in S : Min(S) <= n
  BY <1>1, LeastOf
<1>3. \A i \in 1 .. Min(S) - 1 : i \notin S
  BY <1>1, <1>2
<1>4. QED
  BY <1>1, <1>2, <1>3 DEF FirstNamed

LEMMA NextSectionExists ==
    ASSUME FileOK, NEW n \in 1 .. Len(file), NEW k \in n + 1 .. Len(file), IsSection(k)
    PROVE  \E m \in n + 1 .. k : NextSection(n, m)
<1> DEFINE S == {m \in n + 1 .. Len(file) : IsSection(m)}
<1>1. Len(file) \in Nat /\ k \in S /\ S \subseteq Nat
  BY DEF FileOK
<1>2. Min(S) \in S /\ \A m \in S : Min(S) <= m
  BY <1>1, LeastOf
<1>3. \A i \in n + 1 .. Min(S) - 1 : i \notin S
  BY <1>1, <1>2
<1>4. QED
  BY <1>1, <1>2, <1>3 DEF NextSection, Quiet

(***************************************************************************)
(* The inductive invariant.                                                *)
(***************************************************************************)
\* s holds the keys of the lines behind n up to hi in their order, and before
\* them only keys nobody asks for.
CollectedFor(s, n, hi) ==
    /\ s \in Seq(1 .. hi)
    /\ \A i, j \in 1 .. Len(s) : i < j => s[i] < s[j]
    /\ \A i \in 1 .. Len(s) : s[i] <= n => file[s[i]].name \notin AskedKeys
    /\ \A i \in 1 .. Len(s) : file[s[i]].kind = "key"
    /\ \A k \in n + 1 .. hi : file[k].kind = "key" => \E i \in 1 .. Len(s) : s[i] = k

\* After read lines the current section is that of line n; 0 is no section.
Current(n, read) ==
    /\ n \in 0 .. read /\ Quiet(n + 1, read)
    /\ IF n = 0 THEN section = NoSection ELSE IsSection(n) /\ section = file[n].name
CurrentOK(read) == \E n \in 0 .. read : Current(n, read) /\ CollectedFor(keys, n, read)

\* After read lines the first section of each name is stored, with its keys,
\* if another one has followed it.
CommOK(read) ==
    \A sec \in AskedSections :
        /\ sec \in DOMAIN comm =>
              \E n, m \in 1 .. read :
                  FirstNamed(n, sec) /\ NextSection(n, m) /\ CollectedFor(comm[sec], n, m - 1)
        /\ \A n, m \in 1 .. read :
              FirstNamed(n, sec) /\ NextSection(n, m) => sec \in DOMAIN comm

ConfigInv ==
    /\ FileOK
    /\ pass \in {"common", "schema", "loaded", "died"}
    /\ pass = "common" =>
          at \in 1 .. Len(file) + 1 /\ CurrentOK(at - 1) /\ CommOK(at - 1)
    /\ pass # "common" => CommOK(Len(file))

(***************************************************************************)
(* Steps of the first pass.                                                *)
(***************************************************************************)
\* A line that begins no section, and what is collected with or without it.
LEMMA LineCollected ==
    ASSUME FileOK, NEW read \in Nat, read + 1 \in 1 .. Len(file), NEW n \in 0 .. read,
           CollectedFor(keys, n, read), ~IsSection(read + 1),
           \/ file[read + 1].kind = "key" /\ keys' = Append(keys, read + 1)
           \/ file[read + 1].kind # "key" /\ UNCHANGED keys
    PROVE  CollectedFor(keys', n, read + 1)
<1>1. keys \in Seq(1 .. read) /\ Len(keys) \in Nat /\ n \in Nat
  BY DEF CollectedFor
<1>2. CASE file[read + 1].kind = "key" /\ keys' = Append(keys, read + 1)
  <2> DEFINE last == Len(keys) + 1
  <2>1. keys' \in Seq(1 .. read + 1)
    BY <1>1, <1>2
  <2>2. Len(keys') = last /\ keys'[last] = read + 1
    BY <1>1, <1>2
  <2>3. \A i \in 1 .. Len(keys) : keys'[i] = keys[i] /\ keys[i] \in 1 .. read
    BY <1>1, <1>2
  <2>4. \A i \in 1 .. Len(keys') : i \in 1 .. Len(keys) \/ i = last
    BY <1>1, <2>2
  <2> HIDE DEF last
  <2>5. last \in Nat /\ \A i \in 1 .. Len(keys) : i \in Nat /\ i < last
    BY <1>1 DEF last
  <2>6. \A i, j \in 1 .. Len(keys') : i < j => keys'[i] < keys'[j]
    <3>1. TAKE i, j \in 1 .. Len(keys')
    <3>2. HAVE i < j
    <3>3. i \in 1 .. Len(keys)
      BY <2>4, <2>5, <3>2
    <3>4. CASE j = last
      BY <2>2, <2>3, <3>3, <3>4
    <3>5. CASE j \in 1 .. Len(keys)
      BY <2>3, <3>2, <3>3, <3>5 DEF CollectedFor
    <3>6. QED
      BY <2>4, <3>4, <3>5
  <2>7. \A k \in n + 1 .. read + 1 :
           file[k].kind = "key" => \E i \in 1 .. Len(keys') : keys'[i] = k
    <3>1. TAKE k \in n + 1 .. read + 1
    <3>2. HAVE file[k].kind = "key"
    <3> k \in Int /\ n + 1 <= k /\ k <= read + 1
      BY <1>1
    <3>3. CASE k = read + 1
      <4>1. last \in 1 .. Len(keys')
        BY <1>1, <2>2 DEF last
      <4>2. QED
        BY <2>2, <3>3, <4>1
    <3>4. CASE k \in n + 1 .. read
      <4>1. PICK i \in 1 .. Len(keys) : keys[i] = k
        BY <3>2, <3>4 DEF CollectedFor
      <4>2. i \in 1 .. Len(keys') /\ keys'[i] = k
        BY <1>1, <2>2, <2>3, <2>5, <4>1 DEF last
      <4>3. QED
        BY <4>2
    <3>5. QED
      BY <1>1, <3>3, <3>4
  <2>8. \A i \in 1 .. Len(keys') : keys'[i] <= n => file[keys'[i]].name \notin AskedKeys
    <3>1. ~(read + 1 <= n)
      BY <1>1
    <3>2. QED
      BY <2>2, <2>3, <2>4, <3>1 DEF CollectedFor
  <2>9. \A i \in 1 .. Len(keys') : file[keys'[i]].kind = "key"
    BY <1>2, <2>2, <2>3, <2>4 DEF CollectedFor
  <2>10. QED
    BY <2>1, <2>6, <2>7, <2>8, <2>9 DEF CollectedFor
<1>3. CASE file[read + 1].kind # "key" /\ UNCHANGED keys
  <2>1. keys \in Seq(1 .. read + 1)
    BY <1>1
  <2>2. \A k \in n + 1 .. read + 1 : k \in n + 1 .. read \/ k = read + 1
    BY <1>1
  <2>3. QED
    BY <1>3, <2>1, <2>2 DEF CollectedFor
<1>4. QED
  BY <1>2, <1>3

\* What the collected keys are worth when a section begins without dropping
\* them: none of them is asked for.
LEMMA KeptNotAsked ==
    ASSUME FileOK, NEW read \in 0 .. Len(file), NEW n \in 0 .. read,
           Current(n, read), CollectedFor(keys, n, read), section \in SchemaLike \union {NoSection}
    PROVE  \A i \in 1 .. Len(keys) : file[keys[i]].name \notin AskedKeys
<1>1. SUFFICES ASSUME NEW i \in 1 .. Len(keys), file[keys[i]].name \in AskedKeys
               PROVE  FALSE
  OBVIOUS
<1>2. Len(file) \in Nat /\ read \in Nat /\ n \in Nat
  BY DEF FileOK
<1>3. keys[i] \in 1 .. read /\ n < keys[i] /\ file[keys[i]].kind = "key"
  <2>1. keys[i] \in 1 .. read /\ ~(keys[i] <= n) /\ file[keys[i]].kind = "key"
    BY <1>1, <1>2 DEF CollectedFor
  <2>2. QED
    BY <1>2, <2>1
<1>4. PICK m \in 1 .. keys[i] - 1 :
         /\ IsSection(m) /\ CommonName(file[m].name)
         /\ \A j \in m + 1 .. keys[i] - 1 : ~IsSection(j)
  <2>1. keys[i] \in 1 .. Len(file)
    BY <1>2, <1>3
  <2>2. QED
    BY <1>1, <1>3, <2>1 DEF FileOK, AskedInPlace, IsSection
<1>5. m = n
  <2>1. CASE n < m
    <3>1. m \in n + 1 .. read
      BY <1>2, <1>3, <1>4, <2>1
    <3>2. QED
      BY <1>4, <3>1 DEF Current, Quiet
  <2>2. CASE m < n
    <3>1. n \in m + 1 .. keys[i] - 1 /\ n # 0
      BY <1>2, <1>3, <1>4, <2>2
    <3>2. QED
      BY <1>4, <3>1 DEF Current
  <2>3. QED
    BY <1>2, <1>3, <1>4, <2>1, <2>2
<1>6. QED
  BY <1>2, <1>4, <1>5 DEF Current, CommonName

\* Two lines that are each the last section read are one line.
LEMMA CurrentIs ==
    ASSUME FileOK, NEW read \in 0 .. Len(file), NEW n \in 0 .. read, Current(n, read),
           NEW k \in 1 .. read, IsSection(k), Quiet(k + 1, read)
    PROVE  n = k
<1>1. Len(file) \in Nat /\ read \in Nat /\ n \in Nat
  BY DEF FileOK
<1>2. ~(n < k)
  <2>1. n < k => k \in n + 1 .. read
    BY <1>1
  <2>2. QED
    BY <2>1 DEF Current, Quiet
<1>3. ~(k < n)
  <2>1. k < n => n \in k + 1 .. read /\ n # 0
    BY <1>1
  <2>2. QED
    BY <2>1 DEF Current, Quiet
<1>4. QED
  BY <1>1, <1>2, <1>3

\* The section that is current when another begins and that is not stored is
\* the first of its name.
LEMMA CurrentIsFirst ==
    ASSUME FileOK, NEW read \in 0 .. Len(file), NEW n \in 0 .. read, Current(n, read),
           CommOK(read), section \in AskedSections, section \notin DOMAIN comm
    PROVE  FirstNamed(n, section)
<1>1. Len(file) \in Nat /\ read \in Nat /\ n \in Nat
  BY DEF FileOK
<1>2. n # 0 /\ IsSection(n) /\ section = file[n].name
  BY DEF Current, AskedSections, NoSection
<1>3. n \in 1 .. Len(file)
  BY <1>1, <1>2
<1>4. PICK f \in 1 .. n : FirstNamed(f, section)
  BY <1>2, <1>3, FirstNamedExists
<1>5. ~(f < n)
  <2>1. SUFFICES ASSUME f < n PROVE FALSE
    OBVIOUS
  <2>2. n \in f + 1 .. Len(file) /\ f \in 1 .. Len(file)
    BY <1>1, <1>3, <2>1
  <2>3. PICK m \in f + 1 .. n : NextSection(f, m)
    BY <1>2, <2>2, NextSectionExists
  <2>4. f \in 1 .. read /\ m \in 1 .. read
    BY <1>1, <1>3, <2>3
  <2>5. QED
    BY <1>4, <2>3, <2>4 DEF CommOK
<1>6. f = n
  BY <1>1, <1>4, <1>5
<1>7. QED
  BY <1>4, <1>6

\* After a line that begins a section that section is the current one.
LEMMA SectionCurrent ==
    ASSUME FileOK, NEW read \in Nat, at = read + 1, CurrentOK(read), CommSection
    PROVE  CurrentOK(read + 1)'
<1>1. PICK n \in 0 .. read : Current(n, read) /\ CollectedFor(keys, n, read)
  BY DEF CurrentOK
<1>2. /\ file[read + 1].kind = "section" /\ section' = file[read + 1].name /\ file' = file
      /\ read + 1 <= Len(file)
  BY DEF CommSection, LineIs, LineName
<1>3. Len(file) \in Nat /\ read \in 0 .. Len(file)
  BY <1>2 DEF FileOK
<1>4. (Current(read + 1, read + 1))'
  <2>1. ~(\E i : i \in read + 1 + 1 .. read + 1)
    OBVIOUS
  <2>2. QED
    BY <1>2, <2>1 DEF Current, IsSection, Quiet
<1>5. (CollectedFor(keys, read + 1, read + 1))'
  <2>1. ~(\E k : k \in read + 1 + 1 .. read + 1)
    OBVIOUS
  <2>2. CASE section \in SchemaLike \union {NoSection}
    <3>1. keys' = keys
      BY <2>2 DEF CommSection
    <3>2. \A i \in 1 .. Len(keys) : file[keys[i]].name \notin AskedKeys
      BY <1>1, <1>3, <2>2, KeptNotAsked
    <3>3. keys \in Seq(1 .. read + 1)
      BY <1>1 DEF CollectedFor
    <3>4. QED
      BY <1>1, <1>2, <2>1, <3>1, <3>2, <3>3 DEF CollectedFor
  <2>3. CASE section \notin SchemaLike \union {NoSection}
    <3>1. keys' = <<>>
      BY <2>3 DEF CommSection
    <3>2. ~(\E i : i \in 1 .. Len(keys')) /\ keys' \in Seq(1 .. read + 1)
      BY <3>1
    <3>3. QED
      BY <2>1, <3>2 DEF CollectedFor
  <2>4. QED
    BY <2>2, <2>3
<1>6. QED
  BY <1>4, <1>5 DEF CurrentOK

\* The section it ends is stored, if it is a common one.
LEMMA SectionStored ==
    ASSUME FileOK, NEW read \in Nat, at = read + 1, CurrentOK(read), CommOK(read), CommSection
    PROVE  CommOK(read + 1)'
<1>1. PICK n \in 0 .. read : Current(n, read) /\ CollectedFor(keys, n, read)
  BY DEF CurrentOK
<1>2. /\ file[read + 1].kind = "section" /\ file' = file
      /\ read + 1 <= Len(file)
  BY DEF CommSection, LineIs, LineName
<1>3. Len(file) \in Nat /\ read \in 0 .. Len(file)
  BY <1>2 DEF FileOK
<1> SUFFICES ASSUME NEW sec \in AskedSections
             PROVE  /\ sec \in DOMAIN comm' =>
                          \E i, m \in 1 .. read + 1 :
                              /\ FirstNamed(i, sec) /\ NextSection(i, m)
                              /\ CollectedFor(comm'[sec], i, m - 1)
                    /\ \A i, m \in 1 .. read + 1 :
                          FirstNamed(i, sec) /\ NextSection(i, m) => sec \in DOMAIN comm'
  <2>1. \A i, name : FirstNamed(i, name)' <=> FirstNamed(i, name)
    BY <1>2, Zenon DEF FirstNamed, IsSection
  <2>2. \A i, m : NextSection(i, m)' <=> NextSection(i, m)
    BY <1>2, Zenon DEF NextSection, IsSection, Quiet
  <2>3. \A sec, i, m :
           CollectedFor(comm[sec], i, m - 1)' <=> CollectedFor(comm'[sec], i, m - 1)
    BY <1>2, Zenon DEF CollectedFor
  <2>4. QED
    BY <2>1, <2>2, <2>3, Zenon DEF CommOK
<1>4. sec \notin SchemaLike \union {NoSection}
  BY SectionsAssumption DEF AskedSections, NoSection
<1>5. section \notin SchemaLike \union {NoSection} => comm' = Stored
  BY DEF CommSection
<1>6. section \in SchemaLike \union {NoSection} => comm' = comm
  BY DEF CommSection
<1>7. DOMAIN comm' = DOMAIN comm \union
                     (IF section \in SchemaLike \union {NoSection} THEN {} ELSE {section})
  BY <1>5, <1>6 DEF Stored
<1>8. sec \in DOMAIN comm => comm'[sec] = comm[sec]
  BY <1>5, <1>6 DEF Stored
<1>9. sec \in DOMAIN comm' /\ sec \notin DOMAIN comm => sec = section /\ comm'[sec] = keys
  BY <1>5, <1>6, <1>7 DEF Stored
<1>10. ASSUME sec \in DOMAIN comm'
       PROVE  \E i, m \in 1 .. read + 1 :
                  /\ FirstNamed(i, sec) /\ NextSection(i, m)
                  /\ CollectedFor(comm'[sec], i, m - 1)
  <2>1. CASE sec \in DOMAIN comm
    <3>1. PICK i, m \in 1 .. read :
              FirstNamed(i, sec) /\ NextSection(i, m) /\ CollectedFor(comm[sec], i, m - 1)
      BY <2>1 DEF CommOK
    <3>2. i \in 1 .. read + 1 /\ m \in 1 .. read + 1
      OBVIOUS
    <3>3. QED
      BY <1>8, <2>1, <3>1, <3>2
  <2>2. CASE sec \notin DOMAIN comm
    <3>1. sec = section /\ comm'[sec] = keys
      BY <1>9, <1>10, <2>2
    <3>2. FirstNamed(n, sec)
      BY <1>1, <1>3, <2>2, <3>1, CurrentIsFirst
    <3>3. n \in 1 .. read + 1 /\ read + 1 \in n + 1 .. Len(file)
      BY <1>2, <1>3, <3>2 DEF FirstNamed
    <3>4. NextSection(n, read + 1) /\ CollectedFor(keys, n, read + 1 - 1)
      BY <1>1, <1>2, <3>3 DEF NextSection, Current, IsSection
    <3>5. QED
      BY <3>1, <3>2, <3>3, <3>4
  <2>3. QED
    BY <2>1, <2>2
<1>11. ASSUME NEW i \in 1 .. read + 1, NEW m \in 1 .. read + 1,
              FirstNamed(i, sec), NextSection(i, m)
       PROVE  sec \in DOMAIN comm'
  <2>1. i < m /\ i \in 1 .. read
    BY <1>3, <1>11 DEF NextSection
  <2>2. CASE m = read + 1
    <3>1. IsSection(i) /\ file[i].name = sec /\ Quiet(i + 1, read)
      BY <1>11, <2>2 DEF FirstNamed, NextSection
    <3>2. n = i
      BY <1>1, <1>3, <2>1, <3>1, CurrentIs
    <3>3. section = sec
      BY <1>1, <2>1, <3>1, <3>2 DEF Current
    <3>4. QED
      BY <1>4, <1>7, <3>3
  <2>3. CASE m # read + 1
    <3>1. m \in 1 .. read
      BY <2>3
    <3>2. QED
      BY <1>7, <1>11, <2>1, <3>1 DEF CommOK
  <2>4. QED
    BY <2>2, <2>3
<1>12. QED
  BY <1>10, <1>11

\* A key, or a line of no interest, belongs to the current section.
LEMMA LineCurrent ==
    ASSUME FileOK, NEW read \in Nat, read + 1 <= Len(file), CurrentOK(read),
           ~IsSection(read + 1), UNCHANGED <<file, section>>,
           \/ file[read + 1].kind = "key" /\ keys' = Append(keys, read + 1)
           \/ file[read + 1].kind # "key" /\ UNCHANGED keys
    PROVE  CurrentOK(read + 1)'
<1>1. PICK n \in 0 .. read : Current(n, read) /\ CollectedFor(keys, n, read)
  BY DEF CurrentOK
<1>2. Len(file) \in Nat /\ read + 1 \in 1 .. Len(file) /\ n \in 0 .. read + 1
  BY DEF FileOK
<1>3. CollectedFor(keys', n, read + 1)
  BY <1>1, <1>2, LineCollected
<1>4. Current(n, read + 1)
  <2>1. \A i \in n + 1 .. read + 1 : i \in n + 1 .. read \/ i = read + 1
    BY <1>2
  <2>2. QED
    BY <1>1, <1>2, <2>1 DEF Current, Quiet
<1>5. (CollectedFor(keys, n, read + 1))'
  BY <1>3, Zenon DEF CollectedFor
<1>6. (Current(n, read + 1))'
  BY <1>4 DEF Current, Quiet, IsSection
<1>7. QED
  BY <1>2, <1>5, <1>6 DEF CurrentOK

\* It stores nothing.
LEMMA LineStores ==
    ASSUME FileOK, NEW read \in Nat, CommOK(read), ~IsSection(read + 1)
    PROVE  CommOK(read + 1)
<1>1. \A i, m \in 1 .. read + 1 :
         NextSection(i, m) => i \in 1 .. read /\ m \in 1 .. read
  <2>1. TAKE i, m \in 1 .. read + 1
  <2>2. HAVE NextSection(i, m)
  <2>3. m # read + 1 /\ m \in i + 1 .. Len(file) /\ Len(file) \in Nat
    BY <2>2 DEF NextSection, FileOK
  <2>4. QED
    BY <2>3
<1>2. \A i \in 1 .. read : i \in 1 .. read + 1
  OBVIOUS
<1>3. QED
  BY <1>1, <1>2 DEF CommOK

LEMMA StoredKept ==
    ASSUME NEW read \in Nat, CommOK(read), UNCHANGED <<file, comm>>
    PROVE  CommOK(read)'
<1>1. \A n, name : FirstNamed(n, name)' <=> FirstNamed(n, name)
  BY Zenon DEF FirstNamed, IsSection
<1>2. \A n, m : NextSection(n, m)' <=> NextSection(n, m)
  BY Zenon DEF NextSection, IsSection, Quiet
<1>3. \A sec, n, m : CollectedFor(comm[sec], n, m - 1)' <=> CollectedFor(comm[sec], n, m - 1)
  BY Zenon DEF CollectedFor
<1>4. QED
  BY <1>1, <1>2, <1>3, Zenon DEF CommOK

LEMMA NothingRead ==
    ASSUME section = NoSection, keys = <<>>, comm = <<>>
    PROVE  CurrentOK(0) /\ CommOK(0)
<1>1. ~(\E i : i \in 0 + 1 .. 0) /\ ~(\E i : i \in 1 .. 0) /\ 0 \in 0 .. 0
  OBVIOUS
<1>2. ~(\E i : i \in 1 .. Len(keys)) /\ keys \in Seq(1 .. 0) /\ DOMAIN comm = {}
  OBVIOUS
<1>3. CurrentOK(0)
  BY <1>1, <1>2 DEF CurrentOK, Current, CollectedFor, Quiet
<1>4. CommOK(0)
  BY <1>1, <1>2 DEF CommOK
<1>5. QED
  BY <1>3, <1>4

(***************************************************************************)
(* The invariant is inductive.                                             *)
(***************************************************************************)
LEMMA ConfigInit ==
    ASSUME \A s \in Scenarios : AskedInPlace(s.file), Init
    PROVE  ConfigInv
<1>1. PICK s \in Scenarios : file = s.file
  BY DEF Init
<1>2. FileOK
  BY <1>1, ScenariosAssumption DEF FileOK
<1>3. pass = "common" /\ at = 1 /\ Len(file) \in Nat /\ at - 1 = 0
  BY <1>2 DEF Init, FreshConfig, FileOK
<1>4. CurrentOK(0) /\ CommOK(0)
  BY NothingRead DEF Init, FreshConfig
<1>5. QED
  BY <1>2, <1>3, <1>4 DEF ConfigInv

\* What a step of the starts does to the configuration.
LEMMA ConfigStep ==
    ASSUME [Next]_vars
    PROVE  UNCHANGED configVars \/ Load \/ (FreshConfigNext /\ UNCHANGED file)
<1>1. CASE LoadLine
  BY <1>1 DEF LoadLine
<1>2. CASE OtherProcess
  BY <1>2 DEF OtherProcess
<1>3. ASSUME NEW p \in Procs, Start(p)
      PROVE  FreshConfigNext /\ UNCHANGED file
  BY <1>3 DEF Start
<1>4. ASSUME NEW p \in Procs, Step(p) \/ Killed(p)
      PROVE  UNCHANGED configVars
  BY <1>4 DEF Step, Killed, Loaded, LoadDied, Refused, Passed, Fork, OpenPidFile,
              OpenPidFileFails, WritePidFile, Connect, ConnectSkipped, ConnectFails
<1>5. CASE UNCHANGED vars
  BY <1>5 DEF vars
<1>6. QED
  BY <1>1, <1>2, <1>3, <1>4, <1>5 DEF Next

LEMMA FirstPass ==
    ASSUME ConfigInv, pass = "common", LoadCommConf \/ SkipLine
    PROVE  ConfigInv'
<1>0. /\ FileOK /\ Len(file) \in Nat /\ at \in 1 .. Len(file) + 1
      /\ CurrentOK(at - 1) /\ CommOK(at - 1)
  BY DEF ConfigInv, FileOK
<1> PICK read \in Nat : read = at - 1
  BY <1>0
<1>1. /\ at = read + 1 /\ FileOK /\ CurrentOK(read) /\ CommOK(read)
      /\ Len(file) \in Nat /\ at \in 1 .. Len(file) + 1
  BY <1>0
<1>2. file' = file /\ FileOK'
  BY <1>1 DEF LoadCommConf, CommSection, CommKey, CommEnd, SkipLine, FileOK, AskedInPlace
<1>3. CASE CommSection
  <2>1. pass' = "common" /\ at' = at + 1 /\ at' - 1 = read + 1 /\ at' \in 1 .. Len(file') + 1
    BY <1>1, <1>2, <1>3 DEF CommSection, LineIs
  <2>2. (CurrentOK(read + 1))' /\ (CommOK(read + 1))'
    BY <1>1, <1>3, SectionCurrent, SectionStored
  <2>3. QED
    BY <1>2, <2>1, <2>2 DEF ConfigInv
<1>4. CASE CommKey \/ SkipLine
  <2>1. /\ pass' = "common" /\ at' = at + 1 /\ at' - 1 = read + 1 /\ at' \in 1 .. Len(file') + 1
        /\ read + 1 <= Len(file)
    BY <1>1, <1>2, <1>4 DEF CommKey, SkipLine, LineIs
  <2>2. /\ ~IsSection(read + 1) /\ UNCHANGED <<file, section, comm>>
        /\ \/ file[read + 1].kind = "key" /\ keys' = Append(keys, read + 1)
           \/ file[read + 1].kind # "key" /\ UNCHANGED keys
    BY <1>1, <1>4 DEF CommKey, SkipLine, LineIs, IsSection
  <2>3. (CurrentOK(read + 1))'
    BY <1>1, <2>1, <2>2, LineCurrent
  <2>4. read + 1 \in Nat /\ CommOK(read + 1)
    BY <1>1, <2>2, LineStores
  <2>5. (CommOK(read + 1))'
    BY <2>2, <2>4, StoredKept
  <2>6. QED
    BY <1>2, <2>1, <2>3, <2>5 DEF ConfigInv
<1>5. CASE CommEnd
  <2>1. pass' = "schema" /\ read = Len(file) /\ UNCHANGED <<file, comm>>
    BY <1>1, <1>5 DEF CommEnd
  <2>2. (CommOK(read))'
    BY <1>1, <2>1, StoredKept
  <2>3. read = Len(file')
    BY <1>2, <2>1
  <2>4. (CommOK(Len(file)))'
    BY <2>2, <2>3
  <2>5. QED
    BY <1>2, <2>1, <2>4, Zenon DEF ConfigInv
<1>6. QED
  BY <1>3, <1>4, <1>5 DEF LoadCommConf

LEMMA ConfigNext ==
    ASSUME ConfigInv, [Next]_vars
    PROVE  ConfigInv'
<1>1. CASE UNCHANGED configVars
  <2>1. UNCHANGED <<file, pass, at, section, keys, comm>>
    BY <1>1 DEF configVars
  <2>2. FileOK'
    BY <2>1 DEF ConfigInv, FileOK, AskedInPlace
  <2>3. CASE pass = "common"
    <3>1. /\ FileOK /\ Len(file) \in Nat /\ at \in 1 .. Len(file) + 1
          /\ CurrentOK(at - 1) /\ CommOK(at - 1)
      BY <2>3 DEF ConfigInv, FileOK
    <3>2. PICK read \in Nat : read = at - 1
      BY <3>1
    <3>3. (CommOK(read))'
      BY <2>1, <3>1, <3>2, StoredKept
    <3>4. PICK n \in 0 .. read : Current(n, read) /\ CollectedFor(keys, n, read)
      BY <3>1, <3>2 DEF CurrentOK
    <3>5. (Current(n, read))'
      BY <2>1, <3>4, Zenon DEF Current, IsSection, Quiet
    <3>6. (CollectedFor(keys, n, read))'
      BY <2>1, <3>4, Zenon DEF CollectedFor
    <3>7. (CurrentOK(read))'
      BY <3>5, <3>6 DEF CurrentOK
    <3>8. read = at' - 1
      BY <2>1, <3>2
    <3>9. QED
      BY <2>1, <2>2, <2>3, <3>1, <3>3, <3>7, <3>8 DEF ConfigInv
  <2>4. CASE pass # "common"
    <3>1. PICK read \in Nat : read = Len(file)
      BY DEF ConfigInv, FileOK
    <3>2. (CommOK(read))'
      BY <2>1, <2>4, <3>1, StoredKept DEF ConfigInv
    <3>3. (CommOK(Len(file)))'
      BY <2>1, <3>1, <3>2
    <3>4. QED
      BY <2>1, <2>2, <2>4, <3>3 DEF ConfigInv
  <2>5. QED
    BY <2>3, <2>4
<1>2. CASE FreshConfigNext /\ UNCHANGED file
  <2>1. FileOK'
    BY <1>2 DEF ConfigInv, FileOK, AskedInPlace
  <2>2. (CurrentOK(0))' /\ (CommOK(0))'
    <3>1. section' = NoSection /\ keys' = <<>> /\ comm' = <<>>
      BY <1>2 DEF FreshConfigNext
    <3>2. ~(\E i : i \in 0 + 1 .. 0) /\ ~(\E i : i \in 1 .. 0) /\ 0 \in 0 .. 0
      OBVIOUS
    <3>3. ~(\E i : i \in 1 .. Len(keys')) /\ keys' \in Seq(1 .. 0) /\ DOMAIN comm' = {}
      BY <3>1
    <3>4. QED
      BY <3>1, <3>2, <3>3 DEF CurrentOK, Current, CollectedFor, Quiet, CommOK
  <2>3. pass' = "common" /\ at' = 1 /\ at' - 1 = 0 /\ Len(file') \in Nat
    BY <1>2, <2>1 DEF FreshConfigNext, FileOK
  <2>4. QED
    BY <2>1, <2>2, <2>3 DEF ConfigInv
<1>3. CASE pass = "common" /\ Load
  <2>1. LoadCommConf \/ SkipLine
    BY <1>3 DEF Load, LoadSchemaConf, SchemaSection, SchemaKey, ColumnHalf, ColumnAdded,
                ColumnDies, ForeignKey, SchemaEnd, LineIs
  <2>2. QED
    BY <1>3, <2>1, FirstPass
<1>4. CASE pass # "common" /\ Load
  <2>1. UNCHANGED <<file, comm>> /\ pass' \in {"schema", "loaded", "died"}
    BY <1>4 DEF Load, LoadCommConf, LoadSchemaConf, CommSection, CommKey, CommEnd, SkipLine,
                SchemaSection, SchemaKey, ColumnHalf, ColumnAdded, ColumnDies, ForeignKey,
                SchemaEnd, LineIs, ConfigInv
  <2>2. PICK read \in Nat : read = Len(file)
    BY DEF ConfigInv, FileOK
  <2>3. (CommOK(read))'
    BY <1>4, <2>1, <2>2, StoredKept DEF ConfigInv
  <2>4. (CommOK(Len(file)))'
    BY <2>1, <2>2, <2>3
  <2>5. FileOK'
    BY <2>1 DEF ConfigInv, FileOK, AskedInPlace
  <2>6. QED
    BY <2>1, <2>4, <2>5 DEF ConfigInv
<1>5. QED
  BY <1>1, <1>2, <1>3, <1>4, ConfigStep

(***************************************************************************)
(* What GetConfig finds.                                                   *)
(***************************************************************************)
LEMMA LinesBelow ==
    ASSUME FileOK, NEW n \in 1 .. Len(file), NEW m, NextSection(n, m), NEW key
    PROVE  InSection(n, key) =
              {k \in n + 1 .. m - 1 : file[k].kind = "key" /\ file[k].name = key}
<1>1. Len(file) \in Nat /\ n \in Nat /\ m \in n + 1 .. Len(file) /\ IsSection(m)
      /\ \A i \in n + 1 .. m - 1 : ~IsSection(i)
  BY DEF FileOK, NextSection, Quiet
<1>2. \A k \in n + 1 .. Len(file) : k < m => \A i \in n + 1 .. k : i \in n + 1 .. m - 1
  BY <1>1
<1>3. \A k \in n + 1 .. Len(file) : ~(k < m) => m \in n + 1 .. k
  BY <1>1
<1>4. BodyOf(n) = n + 1 .. m - 1
  <2>1. \A k \in n + 1 .. m - 1 : k \in n + 1 .. Len(file) /\ k < m
    BY <1>1
  <2>2. \A k \in n + 1 .. Len(file) : k < m => k \in n + 1 .. m - 1
    BY <1>1
  <2>3. QED
    BY <1>1, <1>2, <1>3, <2>1, <2>2 DEF BodyOf
<1>5. \A k \in n + 1 .. m - 1 :
         file[k] = KeyLine(key) <=> file[k].kind = "key" /\ file[k].name = key
  <2>1. TAKE k \in n + 1 .. m - 1
  <2>2. k \in 1 .. Len(file)
    BY <1>1
  <2>3. file[k] \in FileLines
    BY <2>2 DEF FileOK
  <2>4. QED
    BY <2>3 DEF FileLines, KeyLine
<1>6. QED
  BY <1>4, <1>5 DEF InSection

LEMMA Element ==
    ASSUME NEW T, NEW q \in Seq(T)
    PROVE  \A i \in 1 .. Len(q) : q[i] \in T
OBVIOUS

LEMMA GetsFirst ==
    ASSUME FileOK, NEW sec \in DOMAIN comm, NEW key \in AskedKeys,
           NEW n \in 1 .. Len(file), NEW m, NextSection(n, m),
           CollectedFor(comm[sec], n, m - 1)
    PROVE  GetConfig(sec, key) = First(InSection(n, key))
<1> DEFINE s == comm[sec]
           K == {k \in n + 1 .. m - 1 : file[k].kind = "key" /\ file[k].name = key}
           found == {i \in DOMAIN s : file[s[i]].name = key}
<1>1. InSection(n, key) = K
  BY LinesBelow
<1>2. Len(file) \in Nat /\ n \in Nat /\ m \in Nat /\ K \subseteq Nat
  BY DEF FileOK, NextSection
<1>3. s \in Seq(1 .. m - 1) /\ Len(s) \in Nat /\ DOMAIN s = 1 .. Len(s) /\ found \subseteq Nat
  BY DEF CollectedFor
<1>4. \A i \in found : s[i] \in K
  <2>1. TAKE i \in found
  <2>2. i \in 1 .. Len(s) /\ file[s[i]].name = key
    BY <1>3
  <2>3. s[i] \in 1 .. m - 1
    BY <1>3, <2>2, Element
  <2>4. ~(s[i] <= n) /\ file[s[i]].kind = "key"
    BY <2>2 DEF CollectedFor
  <2>5. QED
    BY <1>2, <2>2, <2>3, <2>4
<1>5. \A k \in K : \E i \in found : s[i] = k
  BY <1>3 DEF CollectedFor
<1>6. CASE K = {}
  <2>1. found = {}
    BY <1>4, <1>6
  <2>2. QED
    BY <1>1, <1>6, <2>1 DEF GetConfig, First
<1>7. CASE K # {}
  <2>1. Min(K) \in K /\ \A k \in K : Min(K) <= k
    BY <1>2, <1>7, LeastOf
  <2>2. PICK i \in found : s[i] = Min(K)
    BY <1>5, <2>1
  <2>3. \A j \in found : i <= j
    <3>1. SUFFICES ASSUME NEW j \in found, ~(i <= j) PROVE FALSE
      OBVIOUS
    <3>2. j < i /\ i \in 1 .. Len(s) /\ j \in 1 .. Len(s)
      BY <1>3, <3>1
    <3>3. s[j] < s[i]
      BY <3>2 DEF CollectedFor
    <3>4. Min(K) <= s[j] /\ s[j] \in Nat /\ Min(K) \in Nat
      BY <1>2, <1>4, <2>1
    <3>5. QED
      BY <2>2, <3>3, <3>4
  <2>4. Min(found) = i
    BY <1>3, <2>3, MinIs
  <2>5. found # {}
    BY <2>2
  <2>6. GetConfig(sec, key) = s[Min(found)]
    BY <2>5 DEF GetConfig
  <2>7. QED
    BY <1>1, <1>7, <2>2, <2>4, <2>6 DEF First
<1>8. QED
  BY <1>6, <1>7

LEMMA FirstNamedIs ==
    ASSUME FileOK, NEW sec, NEW n, FirstNamed(n, sec)
    PROVE  n \in SectionsNamed({sec}) /\ Min(SectionsNamed({sec})) = n
<1>1. DOMAIN file = 1 .. Len(file) /\ Len(file) \in Nat
  BY DEF FileOK
<1>2. SectionsNamed({sec}) \subseteq Nat /\ n \in SectionsNamed({sec})
  BY <1>1 DEF SectionsNamed, FirstNamed
<1>3. \A k \in SectionsNamed({sec}) : n <= k
  <2>1. SUFFICES ASSUME NEW k \in SectionsNamed({sec}), ~(n <= k) PROVE FALSE
    OBVIOUS
  <2>2. k \in 1 .. n - 1 /\ IsSection(k) /\ file[k].name = sec
    BY <1>1, <2>1 DEF SectionsNamed, FirstNamed
  <2>3. QED
    BY <2>2 DEF FirstNamed
<1>4. QED
  BY <1>2, <1>3, MinIs

LEMMA InvFinds == ConfigInv => SettingsFound
<1>1. SUFFICES ASSUME ConfigInv, pass = "loaded",
                      NEW sec \in AskedSections, NEW key \in AskedKeys
               PROVE  GetConfig(sec, key) =
                         IF \E n \in SectionsNamed({sec}) :
                               n = Min(SectionsNamed({sec})) /\ Followed(n)
                         THEN Stands(sec, key)
                         ELSE None
  BY DEF SettingsFound, AskedSections, AskedKeys
<1>2. FileOK /\ Len(file) \in Nat /\ DOMAIN file = 1 .. Len(file) /\ CommOK(Len(file))
  BY <1>1 DEF ConfigInv, FileOK
<1>3. ASSUME NEW n \in SectionsNamed({sec}), n = Min(SectionsNamed({sec})), Followed(n)
      PROVE  sec \in DOMAIN comm /\ GetConfig(sec, key) = Stands(sec, key)
  <2>1. n \in 1 .. Len(file) /\ IsSection(n) /\ file[n].name = sec
    BY <1>2, <1>3 DEF SectionsNamed
  <2>2. PICK f \in 1 .. n : FirstNamed(f, sec)
    BY <1>2, <2>1, FirstNamedExists
  <2>3. f = n
    BY <1>2, <1>3, <2>2, FirstNamedIs
  <2>4. PICK k \in n + 1 .. Len(file) : IsSection(k)
    BY <1>3 DEF Followed
  <2>5. PICK e \in n + 1 .. k : NextSection(n, e)
    BY <1>2, <2>1, <2>4, NextSectionExists
  <2>6. e \in 1 .. Len(file)
    BY <1>2, <2>1, <2>5 DEF NextSection
  <2>7. sec \in DOMAIN comm
    BY <1>2, <2>1, <2>2, <2>3, <2>5, <2>6 DEF CommOK
  <2>8. PICK i, m \in 1 .. Len(file) :
            FirstNamed(i, sec) /\ NextSection(i, m) /\ CollectedFor(comm[sec], i, m - 1)
    BY <1>2, <2>7 DEF CommOK
  <2>9. i = n
    BY <1>2, <1>3, <2>8, FirstNamedIs
  <2>10. GetConfig(sec, key) = First(InSection(n, key))
    BY <1>2, <2>1, <2>7, <2>8, <2>9, GetsFirst
  <2>11. QED
    BY <1>3, <2>7, <2>10 DEF Stands
<1>4. ASSUME sec \in DOMAIN comm
      PROVE  \E n \in SectionsNamed({sec}) : n = Min(SectionsNamed({sec})) /\ Followed(n)
  <2>1. PICK n, m \in 1 .. Len(file) : FirstNamed(n, sec) /\ NextSection(n, m)
    BY <1>2, <1>4 DEF CommOK
  <2>2. n \in SectionsNamed({sec}) /\ Min(SectionsNamed({sec})) = n
    BY <1>2, <2>1, FirstNamedIs
  <2>3. Followed(n)
    BY <2>1 DEF Followed, NextSection
  <2>4. QED
    BY <2>2, <2>3
<1>5. QED
  BY <1>3, <1>4 DEF GetConfig

\* Whatever the file says, in any number of sections and lines: a setting the
\* program asks for has the value of the first section of that name if another
\* section follows it, and none if not; provided those keys stand in common
\* sections only (LoadCommConf, GetConfigStr, config.cc:27-75, 211-231).
THEOREM SettingsAlwaysFound ==
    ASSUME \A s \in Scenarios : AskedInPlace(s.file)
    PROVE  Spec => []SettingsFound
<1>1. Init => ConfigInv
  BY ConfigInit
<1>2. ConfigInv /\ [Next]_vars => ConfigInv'
  BY ConfigNext
<1>3. ConfigInv => SettingsFound
  BY InvFinds
<1>4. QED
  BY <1>1, <1>2, <1>3, PTL DEF Spec

(***************************************************************************)
(* The second pass over every file.  The keys of a pair are taken as they  *)
(* come, so that what has been made above a line is what stands whole      *)
(* above it.                                                               *)
(***************************************************************************)
DbKeys == {"database", "table"}
ColumnKeys == {"column_name", "column_index"}

\* The keys of schemas and columns stand in sections named like schemas, and
\* none of them twice in one section: what follows a common section is taken
\* for the schema section before it, and a half said again stays for the next
\* pair.
KeysAtHome(f) ==
    \A k \in 1 .. Len(f) : f[k].kind = "key" /\ f[k].name \in DbKeys \union ColumnKeys =>
        /\ \E n \in 1 .. k - 1 :
              /\ f[n].kind = "section" /\ f[n].name \in SchemaLike
              /\ \A i \in n + 1 .. k - 1 : f[i].kind # "section"
        /\ \A l \in k + 1 .. Len(f) : f[l] = f[k] => \E i \in k + 1 .. l - 1 : f[i].kind = "section"

SchemaFileOK == file \in Seq(FileLines) /\ KeysAtHome(file)

\* Above line a, the last section named like a schema is that of line n.
Under(n, a) ==
    /\ n \in 1 .. a - 1 /\ IsSection(n) /\ file[n].name \in SchemaLike
    /\ \A i \in n + 1 .. a - 1 : IsSection(i) => file[i].name \notin SchemaLike
SectionOK(a) == \A n \in 1 .. a - 1 : Under(n, a) => section = file[n].name

\* The line of a key in the section of line n, and whether both keys of a pair
\* are above line a there.
Line(n, key) == Min(InSection(n, key))
Whole(n, K, a) == \A key \in K : Line(n, key) < a

\* Of the last section that is not whole above line a, what is there; of the
\* others nothing.
Half(n, key, a) == IF Line(n, key) < a THEN Line(n, key) ELSE None
HalvesOK(N, k1, k2, v, w, a) ==
    /\ \A n \in SectionsNamed(N) : n < a /\ ~Whole(n, {k1, k2}, a) =>
          v = Half(n, k1, a) /\ w = Half(n, k2, a)
    /\ (\A n \in SectionsNamed(N) : n < a => Whole(n, {k1, k2}, a)) => v = None /\ w = None
PairsOK(a) ==
    /\ HalvesOK({"schema"}, "database", "table", db, table, a)
    /\ HalvesOK(ColumnSections, "column_name", "column_index", cname, cindex, a)

\* The schemas and columns that are whole above line a are made.
Made(a) == {n \in SectionsNamed({"schema"}) : Whole(n, DbKeys, a)}
MadeColumns(n, a) == {c \in ColumnsBelow(n) : Whole(c, ColumnKeys, a)}
Place(S, n) == Cardinality({m \in S : m <= n})

ColumnIs(col, c) == col.name = Line(c, "column_name") /\ col.index = Line(c, "column_index")
SchemaIs(s, n, cols) ==
    /\ s.database = Line(n, "database") /\ s.table = Line(n, "table")
    /\ Len(s.columns) = Cardinality(cols)
    /\ \A c \in cols : ColumnIs(s.columns[Place(cols, c)], c)

SchemaConf == [database : Nat, table : Nat, columns : Seq([name : Nat, index : Nat])]
SchemasOK(s, a) ==
    /\ s \in Seq(SchemaConf)
    /\ Len(s) = Cardinality(Made(a))
    /\ \A n \in Made(a) : SchemaIs(s[Place(Made(a), n)], n, MadeColumns(n, a))

SchemaInv ==
    /\ SchemaFileOK
    /\ pass \in {"common", "schema", "loaded", "died"}
    /\ pass = "common" => schemas = <<>> /\ \A v \in {db, table, cname, cindex} : v = None
    /\ pass = "schema" =>
          /\ at \in 1 .. Len(file) + 1 /\ SectionOK(at)
          /\ PairsWhole => PairsOK(at) /\ SchemasOK(schemas, at)
    /\ pass = "loaded" /\ PairsWhole => SchemasOK(schemas, Len(file) + 1)

(***************************************************************************)
(* The lines of a section's keys.                                          *)
(***************************************************************************)
\* The only line of a key in the section of line n.
LineOK(n, key) ==
    /\ Line(n, key) \in n + 1 .. Len(file) /\ InSection(n, key) = {Line(n, key)}
    /\ file[Line(n, key)].kind = "key" /\ file[Line(n, key)].name = key
    /\ \A i \in n + 1 .. Line(n, key) : ~IsSection(i)

LEMMA LineFound ==
    ASSUME SchemaFileOK, NEW n \in 1 .. Len(file), NEW key \in DbKeys \union ColumnKeys,
           InSection(n, key) # {}
    PROVE  LineOK(n, key)
<1>1. Len(file) \in Nat /\ n \in Nat
  BY DEF SchemaFileOK
<1>2. \A k \in InSection(n, key) :
         /\ k \in n + 1 .. Len(file) /\ k \in 1 .. Len(file) /\ k \in Nat
         /\ file[k] = KeyLine(key) /\ \A i \in n + 1 .. k : ~IsSection(i)
  BY <1>1 DEF InSection, BodyOf
<1>3. \A k, l \in InSection(n, key) : ~(k < l)
  <2>1. SUFFICES ASSUME NEW k \in InSection(n, key), NEW l \in InSection(n, key), k < l
                 PROVE  FALSE
    OBVIOUS
  <2>2. file[k].kind = "key" /\ file[k].name = key /\ file[l] = file[k] /\ l \in k + 1 .. Len(file)
    BY <1>1, <1>2, <2>1 DEF KeyLine
  <2>3. PICK i \in k + 1 .. l - 1 : file[i].kind = "section"
    BY <1>2, <2>1, <2>2 DEF SchemaFileOK, KeysAtHome
  <2>4. i \in n + 1 .. l
    BY <1>1, <1>2, <2>1, <2>3
  <2>5. QED
    BY <1>2, <2>1, <2>3, <2>4 DEF IsSection
<1>4. Line(n, key) \in InSection(n, key)
  BY <1>2, LeastOf DEF Line
<1>5. \A k \in InSection(n, key) : k = Line(n, key)
  BY <1>2, <1>3, <1>4
<1>6. QED
  BY <1>2, <1>4, <1>5 DEF LineOK, KeyLine

LEMMA SchemaLines ==
    ASSUME SchemaFileOK, PairsWhole
    PROVE  /\ \A n \in SectionsNamed({"schema"}) : \A key \in DbKeys : LineOK(n, key)
           /\ \A n \in SectionsNamed(ColumnSections) : \A key \in ColumnKeys : LineOK(n, key)
<1>1. DOMAIN file = 1 .. Len(file)
  BY DEF SchemaFileOK
<1>2. \A n \in SectionsNamed({"schema"}) : \A key \in DbKeys :
         n \in 1 .. Len(file) /\ key \in DbKeys \union ColumnKeys /\ InSection(n, key) # {}
  BY <1>1 DEF PairsWhole, SectionsNamed, DbKeys
<1>3. \A n \in SectionsNamed(ColumnSections) : \A key \in ColumnKeys :
         n \in 1 .. Len(file) /\ key \in DbKeys \union ColumnKeys /\ InSection(n, key) # {}
  BY <1>1 DEF PairsWhole, SectionsNamed, ColumnKeys
<1>4. QED
  BY <1>2, <1>3, LineFound

\* The keys of a section stand above every section below it.
LEMMA LinesAbove ==
    ASSUME file \in Seq(FileLines), NEW n \in 1 .. Len(file), NEW key, LineOK(n, key),
           NEW m \in 1 .. Len(file), IsSection(m)
    PROVE  Line(n, key) < m <=> n < m
<1>1. Line(n, key) \in Int /\ n < Line(n, key) /\ n \in Nat /\ m \in Nat
  BY DEF LineOK
<1>2. ~(m \in n + 1 .. Line(n, key))
  BY DEF LineOK
<1>3. Line(n, key) < m \/ m <= n
  BY <1>1, <1>2
<1>4. Line(n, key) # m
  BY DEF LineOK, IsSection
<1>5. QED
  BY <1>1, <1>3

\* The section a key belongs to is the one it is taken for.
LEMMA KeyUnder ==
    ASSUME SchemaFileOK, NEW a \in 1 .. Len(file), file[a].kind = "key",
           file[a].name \in DbKeys \union ColumnKeys
    PROVE  \E n \in 1 .. a - 1 : Under(n, a) /\ a \in InSection(n, file[a].name)
<1>1. PICK n \in 1 .. a - 1 :
         /\ file[n].kind = "section" /\ file[n].name \in SchemaLike
         /\ \A i \in n + 1 .. a - 1 : file[i].kind # "section"
  BY DEF SchemaFileOK, KeysAtHome
<1>2. Under(n, a)
  BY <1>1 DEF Under, IsSection
<1>3. file[a] = KeyLine(file[a].name)
  <2>1. file[a] \in FileLines
    BY DEF SchemaFileOK
  <2>2. QED
    BY <2>1 DEF FileLines, KeyLine
<1>4. \A i \in n + 1 .. a : i \in n + 1 .. a - 1 \/ i = a
  OBVIOUS
<1>5. a \in InSection(n, file[a].name)
  BY <1>1, <1>3, <1>4 DEF InSection, BodyOf, IsSection, SchemaFileOK
<1>6. QED
  BY <1>2, <1>5

LEMMA LineUnder ==
    ASSUME file \in Seq(FileLines), NEW n \in 1 .. Len(file), IsSection(n),
           file[n].name \in SchemaLike, NEW key, LineOK(n, key)
    PROVE  Under(n, Line(n, key))
<1>1. Line(n, key) \in Int /\ n < Line(n, key) /\ n \in Nat
  BY DEF LineOK
<1>2. n \in 1 .. Line(n, key) - 1
  BY <1>1
<1>3. \A i \in n + 1 .. Line(n, key) - 1 : ~IsSection(i)
  BY <1>1 DEF LineOK
<1>4. QED
  BY <1>2, <1>3 DEF Under

(***************************************************************************)
(* Halves of a pair.                                                       *)
(***************************************************************************)
PairLines(N, k1, k2) ==
    k1 # k2 /\ \A n \in SectionsNamed(N) : LineOK(n, k1) /\ LineOK(n, k2)

\* A section's number and those of its keys.
LEMMA LineNumbers ==
    ASSUME file \in Seq(FileLines), NEW N, NEW k1, NEW k2, PairLines(N, k1, k2),
           NEW n \in SectionsNamed(N)
    PROVE  /\ n \in 1 .. Len(file) /\ IsSection(n) /\ file[n].name \in N
           /\ Line(n, k1) \in Nat /\ n < Line(n, k1) /\ Line(n, k1) <= Len(file)
           /\ Line(n, k2) \in Nat /\ n < Line(n, k2) /\ Line(n, k2) <= Len(file)
           /\ Line(n, k1) # Line(n, k2)
<1>1. n \in 1 .. Len(file) /\ IsSection(n) /\ file[n].name \in N /\ Len(file) \in Nat
  BY DEF SectionsNamed
<1>2. Line(n, k1) \in n + 1 .. Len(file) /\ Line(n, k2) \in n + 1 .. Len(file)
  BY DEF PairLines, LineOK
<1>3. Line(n, k1) # Line(n, k2)
  BY DEF PairLines, LineOK
<1>4. QED
  BY <1>1, <1>2, <1>3

LEMMA SectionsApart ==
    ASSUME file \in Seq(FileLines), NEW N, NEW k1, NEW k2, PairLines(N, k1, k2),
           NEW n \in SectionsNamed(N), NEW m \in 1 .. Len(file), IsSection(m)
    PROVE  /\ Line(n, k1) < m <=> n < m
           /\ Line(n, k2) < m <=> n < m
<1>1. n \in 1 .. Len(file) /\ LineOK(n, k1) /\ LineOK(n, k2)
  BY DEF PairLines, SectionsNamed
<1>2. QED
  BY <1>1, LinesAbove

LEMMA HalvesTurned ==
    ASSUME NEW N, NEW k1, NEW k2, NEW v, NEW w, NEW a, HalvesOK(N, k1, k2, v, w, a)
    PROVE  HalvesOK(N, k2, k1, w, v, a)
<1>1. {k1, k2} = {k2, k1}
  OBVIOUS
<1>2. QED
  BY <1>1, Zenon DEF HalvesOK

\* A line that is none of the keys: a section that begins has nothing yet.
LEMMA HalvesStay ==
    ASSUME file \in Seq(FileLines), NEW N, NEW k1, NEW k2, PairLines(N, k1, k2),
           NEW a \in 1 .. Len(file), NEW v, NEW w, HalvesOK(N, k1, k2, v, w, a),
           \A n \in SectionsNamed(N) : a # Line(n, k1) /\ a # Line(n, k2)
    PROVE  /\ HalvesOK(N, k1, k2, v, w, a + 1)
           /\ \A n \in SectionsNamed(N) : Whole(n, {k1, k2}, a + 1) <=> Whole(n, {k1, k2}, a)
<1>1. \A n \in SectionsNamed(N) :
         /\ n \in Nat /\ Line(n, k1) \in Nat /\ Line(n, k2) \in Nat
         /\ n < Line(n, k1) /\ n < Line(n, k2)
  BY LineNumbers
<1>2. \A n \in SectionsNamed(N) :
         /\ Line(n, k1) < a + 1 <=> Line(n, k1) < a
         /\ Line(n, k2) < a + 1 <=> Line(n, k2) < a
  BY <1>1
<1>3. \A n \in SectionsNamed(N) :
         /\ Whole(n, {k1, k2}, a + 1) <=> Whole(n, {k1, k2}, a)
         /\ Half(n, k1, a + 1) = Half(n, k1, a)
         /\ Half(n, k2, a + 1) = Half(n, k2, a)
  BY <1>2 DEF Whole, Half
<1>4. ASSUME NEW n \in SectionsNamed(N), n < a + 1, ~Whole(n, {k1, k2}, a + 1)
      PROVE  v = Half(n, k1, a + 1) /\ w = Half(n, k2, a + 1)
  <2>1. CASE n < a
    BY <1>3, <1>4, <2>1 DEF HalvesOK
  <2>2. CASE n = a
    <3>1. IsSection(a)
      BY <2>2 DEF SectionsNamed
    <3>2. \A m \in SectionsNamed(N) : m < a => Whole(m, {k1, k2}, a)
      BY <3>1, SectionsApart DEF Whole
    <3>3. v = None /\ w = None
      BY <3>2 DEF HalvesOK
    <3>4. ~(Line(n, k1) < a + 1) /\ ~(Line(n, k2) < a + 1)
      BY <1>1, <1>2, <2>2
    <3>5. QED
      BY <3>3, <3>4 DEF Half
  <2>3. QED
    BY <1>1, <1>4, <2>1, <2>2
<1>5. ASSUME \A n \in SectionsNamed(N) : n < a + 1 => Whole(n, {k1, k2}, a + 1)
      PROVE  v = None /\ w = None
  <2>1. \A n \in SectionsNamed(N) : n < a => n < a + 1
    BY <1>1
  <2>2. QED
    BY <1>3, <1>5, <2>1 DEF HalvesOK
<1>6. QED
  BY <1>3, <1>4, <1>5 DEF HalvesOK

\* The line of one key: it is the first half of its section's pair, or with
\* the other half, which is there, the pair.
LEMMA HalfComes ==
    ASSUME file \in Seq(FileLines), NEW N, NEW k1, NEW k2, PairLines(N, k1, k2),
           NEW K, \A k : k \in K <=> k = k1 \/ k = k2,
           NEW n \in SectionsNamed(N), NEW a, a = Line(n, k1),
           NEW v, NEW w, HalvesOK(N, k1, k2, v, w, a)
    PROVE  /\ v = None /\ w = Half(n, k2, a)
           /\ w # None => HalvesOK(N, k1, k2, None, None, a + 1) /\ Whole(n, K, a + 1)
           /\ w = None => HalvesOK(N, k1, k2, a, None, a + 1) /\ ~Whole(n, K, a + 1)
           /\ ~Whole(n, K, a)
           /\ \A m \in SectionsNamed(N) :
                 m # n => (Whole(m, K, a + 1) <=> Whole(m, K, a))
           /\ \A m \in SectionsNamed(N) : Whole(m, K, a) => m < n
<1>0. K = {k1, k2}
  OBVIOUS
<1>1. \A m \in SectionsNamed(N) :
         /\ m \in 1 .. Len(file) /\ IsSection(m) /\ m \in Nat
         /\ Line(m, k1) \in Nat /\ Line(m, k2) \in Nat
         /\ m < Line(m, k1) /\ m < Line(m, k2) /\ Line(m, k1) # Line(m, k2)
  BY LineNumbers
<1>2. \A m, l \in SectionsNamed(N) :
         (Line(m, k1) < l <=> m < l) /\ (Line(m, k2) < l <=> m < l)
  BY <1>1, SectionsApart
<1>3. a \in Nat /\ n < a /\ ~Whole(n, {k1, k2}, a)
  BY <1>1 DEF Whole
<1>4. v = None /\ w = Half(n, k2, a)
  <2>1. v = Half(n, k1, a) /\ w = Half(n, k2, a)
    BY <1>3 DEF HalvesOK
  <2>2. QED
    BY <1>3, <2>1 DEF Half
<1>5. \A m \in SectionsNamed(N) : m < n =>
         Line(m, k1) < a /\ Line(m, k2) < a /\ Line(m, k1) < a + 1 /\ Line(m, k2) < a + 1
  BY <1>1, <1>2, <1>3
<1>6. \A m \in SectionsNamed(N) : n < m =>
         ~(Line(m, k1) < a) /\ ~(Line(m, k1) < a + 1) /\ ~(m < a + 1)
  BY <1>1, <1>2, <1>3
<1>7. \A m \in SectionsNamed(N) : m < n \/ m = n \/ n < m
  BY <1>1
<1>8. Line(n, k2) < a + 1 <=> Line(n, k2) < a
  BY <1>1, <1>3
<1>9. Line(n, k1) < a + 1 /\ n < a + 1
  BY <1>1, <1>3
<1>10. Whole(n, {k1, k2}, a + 1) <=> Line(n, k2) < a
  BY <1>8, <1>9 DEF Whole
<1>11. w = None <=> ~(Line(n, k2) < a)
  BY <1>1, <1>4 DEF Half, None
<1>12. ASSUME w # None
       PROVE  HalvesOK(N, k1, k2, None, None, a + 1)
  <2>1. \A m \in SectionsNamed(N) : m < a + 1 => Whole(m, {k1, k2}, a + 1)
    BY <1>5, <1>6, <1>7, <1>10, <1>11, <1>12 DEF Whole
  <2>2. QED
    BY <2>1 DEF HalvesOK
<1>13. ASSUME w = None
       PROVE  HalvesOK(N, k1, k2, a, None, a + 1)
  <2>1. \A m \in SectionsNamed(N) : m < a + 1 /\ ~Whole(m, {k1, k2}, a + 1) => m = n
    BY <1>5, <1>6, <1>7 DEF Whole
  <2>2. Half(n, k1, a + 1) = a /\ Half(n, k2, a + 1) = None
    BY <1>8, <1>9, <1>11, <1>13 DEF Half
  <2>3. QED
    BY <1>9, <1>10, <1>11, <1>13, <2>1, <2>2 DEF HalvesOK
<1>14. \A m \in SectionsNamed(N) :
          m # n => (Whole(m, {k1, k2}, a + 1) <=> Whole(m, {k1, k2}, a))
  BY <1>5, <1>6, <1>7 DEF Whole
<1>15. \A m \in SectionsNamed(N) : Whole(m, {k1, k2}, a) => m < n
  BY <1>3, <1>6, <1>7 DEF Whole
<1>16. QED
  BY <1>0, <1>3, <1>4, <1>10, <1>11, <1>12, <1>13, <1>14, <1>15

\* The other key's, likewise.
LEMMA OtherHalfComes ==
    ASSUME file \in Seq(FileLines), NEW N, NEW k1, NEW k2, PairLines(N, k1, k2),
           NEW K, \A k : k \in K <=> k = k1 \/ k = k2,
           NEW n \in SectionsNamed(N), NEW a, a = Line(n, k2),
           NEW v, NEW w, HalvesOK(N, k1, k2, v, w, a)
    PROVE  /\ w = None /\ v = Half(n, k1, a)
           /\ v # None => HalvesOK(N, k1, k2, None, None, a + 1) /\ Whole(n, K, a + 1)
           /\ v = None => HalvesOK(N, k1, k2, None, a, a + 1) /\ ~Whole(n, K, a + 1)
           /\ ~Whole(n, K, a)
           /\ \A m \in SectionsNamed(N) :
                 m # n => (Whole(m, K, a + 1) <=> Whole(m, K, a))
           /\ \A m \in SectionsNamed(N) : Whole(m, K, a) => m < n
<1>1. PairLines(N, k2, k1)
  BY DEF PairLines
<1>2. HalvesOK(N, k2, k1, w, v, a)
  BY HalvesTurned
<1>3. /\ w = None /\ v = Half(n, k1, a)
      /\ v # None => HalvesOK(N, k2, k1, None, None, a + 1) /\ Whole(n, K, a + 1)
      /\ v = None => HalvesOK(N, k2, k1, a, None, a + 1) /\ ~Whole(n, K, a + 1)
      /\ ~Whole(n, K, a)
      /\ \A m \in SectionsNamed(N) :
            m # n => (Whole(m, K, a + 1) <=> Whole(m, K, a))
      /\ \A m \in SectionsNamed(N) : Whole(m, K, a) => m < n
  BY <1>1, <1>2, HalfComes
<1>4. QED
  BY <1>3, HalvesTurned

(***************************************************************************)
(* Places of lines among others.                                           *)
(***************************************************************************)
LEMMA GreatestOf ==
    ASSUME NEW n \in Nat, NEW S, S \subseteq 1 .. n, S # {}
    PROVE  \E x \in S : \A y \in S : y <= x
<1> DEFINE D == {n - y : y \in S}
<1>1. \A y \in S : y \in Nat /\ y <= n
  OBVIOUS
<1>2. D \subseteq Nat /\ D # {}
  <2>1. \A y \in S : n - y \in Nat
    BY <1>1
  <2>2. QED
    BY <2>1
<1>3. Min(D) \in D /\ \A d \in D : Min(D) <= d
  BY <1>2, LeastOf
<1>4. PICK x \in S : Min(D) = n - x
  BY <1>3
<1>5. \A y \in S : n - x <= n - y
  BY <1>3, <1>4
<1>6. QED
  BY <1>1, <1>5

LEMMA PlaceIn ==
    ASSUME NEW n \in Nat, NEW S, S \subseteq 1 .. n
    PROVE  /\ IsFiniteSet(S) /\ Cardinality(S) \in Nat
           /\ \A y \in S : Place(S, y) \in 1 .. Cardinality(S)
<1>1. IsFiniteSet(S) /\ Cardinality(S) \in Nat
  <2>1. IsFiniteSet(1 .. n)
    BY FS_Interval
  <2>2. S \in SUBSET (1 .. n)
    OBVIOUS
  <2>3. IsFiniteSet(S)
    BY <2>1, <2>2, FS_Subset
  <2>4. QED
    BY <2>3, FS_CardinalityType
<1>2. ASSUME NEW y \in S
      PROVE  Place(S, y) \in 1 .. Cardinality(S)
  <2> DEFINE P == {m \in S : m <= y}
  <2>1. P \in SUBSET S /\ y \in P
    OBVIOUS
  <2>2. IsFiniteSet(P) /\ Cardinality(P) <= Cardinality(S)
    BY <1>1, <2>1, FS_Subset
  <2>3. Cardinality(P) \in Nat /\ Cardinality(P) # 0
    BY <2>1, <2>2, FS_EmptySet, FS_CardinalityType
  <2>4. Place(S, y) = Cardinality(P)
    BY DEF Place
  <2>5. QED
    BY <1>1, <2>2, <2>3, <2>4
<1>3. QED
  BY <1>1, <1>2

\* A line below all the others takes the next place, and they keep theirs.
LEMMA PlaceAdded ==
    ASSUME NEW n \in Nat, NEW S, S \subseteq 1 .. n, NEW x \in 1 .. n, \A y \in S : y < x
    PROVE  /\ Cardinality(S \union {x}) = Cardinality(S) + 1
           /\ Place(S \union {x}, x) = Cardinality(S) + 1
           /\ \A y \in S : Place(S \union {x}, y) = Place(S, y)
<1>1. \A y \in S : y \in Nat /\ y <= x /\ ~(x <= y)
  OBVIOUS
<1>2. Cardinality(S \union {x}) = Cardinality(S) + 1
  <2>1. x \notin S
    BY <1>1
  <2>2. QED
    BY <2>1, PlaceIn, FS_AddElement
<1>3. {m \in S \union {x} : m <= x} = S \union {x}
  <2>1. x <= x
    OBVIOUS
  <2>2. QED
    BY <1>1, <2>1
<1>4. \A y \in S : {m \in S \union {x} : m <= y} = {m \in S : m <= y}
  BY <1>1
<1>5. QED
  BY <1>2, <1>3, <1>4 DEF Place

\* The last line has the last place, and no other has.
LEMMA PlaceLast ==
    ASSUME NEW n \in Nat, NEW S, S \subseteq 1 .. n, NEW x \in S, \A y \in S : y <= x
    PROVE  /\ Place(S, x) = Cardinality(S)
           /\ \A y \in S : y # x => Place(S, y) # Cardinality(S)
<1>1. {m \in S : m <= x} = S
  OBVIOUS
<1>2. ASSUME NEW y \in S, y # x
      PROVE  Place(S, y) # Cardinality(S)
  <2> DEFINE P == {m \in S : m <= y}
  <2>1. y \in Nat /\ x \in Nat /\ y <= x
    OBVIOUS
  <2>2. P \in SUBSET S /\ P # S
    BY <1>2, <2>1
  <2>3. Cardinality(S) # Cardinality(P)
    BY <2>2, PlaceIn, FS_Subset
  <2>4. QED
    BY <2>3 DEF Place
<1>3. QED
  BY <1>1, <1>2 DEF Place

(***************************************************************************)
(* The schemas made, line by line.                                         *)
(***************************************************************************)
SchemaPairs ==
    /\ file \in Seq(FileLines)
    /\ PairLines({"schema"}, "database", "table")
    /\ PairLines(ColumnSections, "column_name", "column_index")

LEMMA MadeAreLines ==
    ASSUME file \in Seq(FileLines), NEW a
    PROVE  /\ Len(file) \in Nat /\ Made(a) \subseteq 1 .. Len(file)
           /\ \A n : MadeColumns(n, a) \subseteq 1 .. Len(file)
           /\ \A n : ColumnsBelow(n) \subseteq SectionsNamed(ColumnSections)
BY DEF Made, MadeColumns, ColumnsBelow, SectionsNamed

LEMMA NothingMade ==
    ASSUME NEW s, NEW a, NEW b, SchemasOK(s, a),
           \A n \in SectionsNamed({"schema"}) : Whole(n, DbKeys, b) <=> Whole(n, DbKeys, a),
           \A n \in SectionsNamed(ColumnSections) :
               Whole(n, ColumnKeys, b) <=> Whole(n, ColumnKeys, a)
    PROVE  SchemasOK(s, b)
<1>1. Made(b) = Made(a)
  BY DEF Made
<1>2. \A n : MadeColumns(n, b) = MadeColumns(n, a)
  BY DEF MadeColumns, ColumnsBelow
<1>3. QED
  BY <1>1, <1>2 DEF SchemasOK

\* The second half of a schema's pair.
LEMMA SchemaMade ==
    ASSUME SchemaPairs, NEW s, NEW a, SchemasOK(s, a),
           NEW n \in SectionsNamed({"schema"}), a = Line(n, "database") \/ a = Line(n, "table"),
           Whole(n, DbKeys, a + 1),
           \A m \in SectionsNamed({"schema"}) : Whole(m, DbKeys, a) => m < n,
           \A m \in SectionsNamed({"schema"}) :
               m # n => (Whole(m, DbKeys, a + 1) <=> Whole(m, DbKeys, a)),
           \A m \in SectionsNamed(ColumnSections) :
               Whole(m, ColumnKeys, a + 1) <=> Whole(m, ColumnKeys, a)
    PROVE  SchemasOK(Append(s, Schema(Line(n, "database"), Line(n, "table"))), a + 1)
<1> DEFINE S == Made(a)
           new == Schema(Line(n, "database"), Line(n, "table"))
           t == Append(s, new)
<1>1. /\ n \in 1 .. Len(file) /\ Line(n, "database") \in Nat /\ Line(n, "table") \in Nat
      /\ Len(file) \in Nat
  BY LineNumbers DEF SchemaPairs
<1>2. S \subseteq 1 .. Len(file) /\ \A m \in S : m < n
  BY MadeAreLines DEF SchemaPairs, Made
<1>3. Made(a + 1) = S \union {n}
  <2>1. \A m \in S : m < n /\ n \in Int
    BY <1>1, <1>2
  <2>2. n \notin S
    BY <2>1
  <2>3. QED
    BY <2>2 DEF Made
<1>4. \A m : MadeColumns(m, a + 1) = MadeColumns(m, a)
  BY DEF MadeColumns, ColumnsBelow
<1>5. MadeColumns(n, a) = {}
  <2>1. SUFFICES ASSUME NEW c \in ColumnsBelow(n), Whole(c, ColumnKeys, a) PROVE FALSE
    BY DEF MadeColumns
  <2>2. c \in SectionsNamed(ColumnSections) /\ n < c
    BY DEF ColumnsBelow
  <2>3. /\ c \in 1 .. Len(file) /\ IsSection(c) /\ c < Line(c, "column_name")
        /\ Line(c, "column_name") \in Nat
    BY <2>2, LineNumbers DEF SchemaPairs
  <2>4. Line(n, "database") < c /\ Line(n, "table") < c
    BY <2>2, <2>3, SectionsApart DEF SchemaPairs
  <2>5. Line(c, "column_name") < a
    BY <2>1 DEF Whole, ColumnKeys
  <2>6. QED
    BY <1>1, <2>3, <2>4, <2>5
<1>6. /\ Cardinality(S \union {n}) = Cardinality(S) + 1
      /\ Place(S \union {n}, n) = Cardinality(S) + 1
      /\ \A m \in S : Place(S \union {n}, m) = Place(S, m)
  BY <1>1, <1>2, PlaceAdded
<1>7. new \in SchemaConf
  BY <1>1 DEF Schema, SchemaConf
<1>8. s \in Seq(SchemaConf) /\ Len(s) = Cardinality(S)
  BY DEF SchemasOK
<1> HIDE DEF S, new
<1>9. /\ t \in Seq(SchemaConf) /\ Len(t) = Len(s) + 1 /\ t[Len(s) + 1] = new
      /\ \A i \in 1 .. Len(s) : t[i] = s[i]
  BY <1>7, <1>8
<1>10. \A m \in S : SchemaIs(t[Place(S \union {n}, m)], m, MadeColumns(m, a + 1))
  <2>1. TAKE m \in S
  <2>2. Place(S, m) \in 1 .. Len(s)
    BY <1>1, <1>2, <1>8, PlaceIn
  <2>3. SchemaIs(s[Place(S, m)], m, MadeColumns(m, a))
    BY DEF SchemasOK, S
  <2>4. QED
    BY <1>4, <1>6, <1>9, <2>2, <2>3
<1>11. SchemaIs(t[Place(S \union {n}, n)], n, MadeColumns(n, a + 1))
  <2>1. t[Place(S \union {n}, n)] = new
    BY <1>6, <1>8, <1>9
  <2>2. SchemaIs(new, n, {})
    BY FS_EmptySet DEF SchemaIs, Schema, new
  <2>3. QED
    BY <1>4, <1>5, <2>1, <2>2
<1>12. SchemasOK(t, a + 1)
  <2>1. Len(t) = Cardinality(Made(a + 1))
    BY <1>3, <1>6, <1>8, <1>9
  <2>2. \A m \in Made(a + 1) : SchemaIs(t[Place(Made(a + 1), m)], m, MadeColumns(m, a + 1))
    BY <1>3, <1>10, <1>11
  <2>3. QED
    BY <1>9, <2>1, <2>2 DEF SchemasOK
<1>13. QED
  BY <1>12 DEF new

\* The second half of a column's pair: it is a column of the last schema made.
LEMMA ColumnMade ==
    ASSUME SchemaPairs, "schema" \notin ColumnSections,
           NEW s, NEW a, SchemasOK(s, a), s # <<>>,
           NEW c \in SectionsNamed(ColumnSections),
           a = Line(c, "column_name") \/ a = Line(c, "column_index"),
           Whole(c, ColumnKeys, a + 1),
           \A m \in SectionsNamed(ColumnSections) : Whole(m, ColumnKeys, a) => m < c,
           \A m \in SectionsNamed(ColumnSections) :
               m # c => (Whole(m, ColumnKeys, a + 1) <=> Whole(m, ColumnKeys, a)),
           \A m \in SectionsNamed({"schema"}) : Whole(m, DbKeys, a + 1) <=> Whole(m, DbKeys, a)
    PROVE  SchemasOK([s EXCEPT ![Len(s)].columns =
                         Append(@, [name |-> Line(c, "column_name"),
                                    index |-> Line(c, "column_index")])], a + 1)
<1> DEFINE S == Made(a)
           col == [name |-> Line(c, "column_name"), index |-> Line(c, "column_index")]
           t == [s EXCEPT ![Len(s)].columns = Append(@, col)]
<1>1. /\ c \in 1 .. Len(file) /\ IsSection(c)
      /\ Line(c, "column_name") \in Nat /\ Line(c, "column_index") \in Nat
      /\ c < Line(c, "column_name") /\ c < Line(c, "column_index") /\ Len(file) \in Nat
  BY LineNumbers DEF SchemaPairs
<1>2. a \in Nat /\ c < a /\ col \in [name : Nat, index : Nat]
  BY <1>1
<1>3. s \in Seq(SchemaConf) /\ Len(s) = Cardinality(S)
  BY DEF SchemasOK
<1>4. S \subseteq 1 .. Len(file) /\ Made(a + 1) = S
  BY MadeAreLines DEF SchemaPairs, Made
<1>5. S # {}
  <2>1. Len(s) # 0
    BY <1>3
  <2>2. QED
    BY <1>3, <2>1, FS_EmptySet
<1>6. PICK x \in S : \A y \in S : y <= x
  BY <1>1, <1>4, <1>5, GreatestOf
<1>7. Place(S, x) = Len(s) /\ \A y \in S : y # x => Place(S, y) # Len(s)
  BY <1>1, <1>3, <1>4, <1>6, PlaceLast
<1>8. \A y \in S : Place(S, y) \in 1 .. Len(s)
  BY <1>1, <1>3, <1>4, PlaceIn
<1>9. \A y \in S : SchemaIs(s[Place(S, y)], y, MadeColumns(y, a))
  BY DEF SchemasOK
<1>10. \A m \in SectionsNamed({"schema"}) :
          /\ m \in 1 .. Len(file) /\ IsSection(m) /\ m # c
          /\ m < Line(m, "database") /\ m < Line(m, "table")
          /\ Line(m, "database") \in Nat /\ Line(m, "table") \in Nat
          /\ Line(m, "database") < c <=> m < c
          /\ Line(m, "table") < c <=> m < c
  <2>1. TAKE m \in SectionsNamed({"schema"})
  <2>2. m # c
    BY DEF SectionsNamed
  <2>3. QED
    BY <1>1, <2>2, LineNumbers, SectionsApart DEF SchemaPairs
<1>11. \A m \in SectionsNamed({"schema"}) : m \in S <=> m < c
  <2>1. TAKE m \in SectionsNamed({"schema"})
  <2>2. ASSUME m < c PROVE Line(m, "database") < a /\ Line(m, "table") < a
    BY <1>1, <1>2, <1>10, <2>2
  <2>3. ASSUME Line(m, "database") < a PROVE m < c
    <3>1. SUFFICES ASSUME ~(m < c) PROVE FALSE
      OBVIOUS
    <3>2. c < m /\ m < a
      BY <1>1, <1>2, <1>10, <2>3, <3>1
    <3>3. Line(c, "column_name") < m /\ Line(c, "column_index") < m
      BY <1>10, <3>2, SectionsApart DEF SchemaPairs
    <3>4. QED
      BY <1>1, <1>10, <3>2, <3>3
  <2>4. QED
    BY <2>2, <2>3 DEF Made, Whole, DbKeys
<1>12. c \in ColumnsBelow(x)
  <2>1. x \in SectionsNamed({"schema"}) /\ x < c /\ x \in Nat
    BY <1>4, <1>6, <1>11 DEF Made
  <2>2. \A m \in SectionsNamed({"schema"}) : ~(m \in x + 1 .. c)
    <3>1. SUFFICES ASSUME NEW m \in SectionsNamed({"schema"}), m \in x + 1 .. c PROVE FALSE
      OBVIOUS
    <3>2. m < c /\ x < m
      BY <1>1, <1>10, <2>1, <3>1
    <3>3. m <= x
      BY <1>6, <1>11, <3>2
    <3>4. QED
      BY <1>10, <2>1, <3>2, <3>3
  <2>3. QED
    BY <1>1, <2>1, <2>2 DEF ColumnsBelow
<1>13. \A y \in S : y # x => MadeColumns(y, a + 1) = MadeColumns(y, a)
  <2>1. TAKE y \in S
  <2>2. HAVE y # x
  <2>3. x \in y + 1 .. c /\ x \in SectionsNamed({"schema"})
    BY <1>1, <1>4, <1>6, <1>11, <2>2 DEF Made
  <2>4. c \notin ColumnsBelow(y)
    BY <2>3 DEF ColumnsBelow
  <2>5. QED
    BY <2>4 DEF MadeColumns, ColumnsBelow
<1> DEFINE C == MadeColumns(x, a)
<1>14. MadeColumns(x, a + 1) = C \union {c}
  <2>1. ~Whole(c, ColumnKeys, a)
    BY <1>2 DEF Whole, ColumnKeys
  <2>2. QED
    BY <1>12 DEF MadeColumns, ColumnsBelow
<1>15. C \subseteq 1 .. Len(file) /\ \A b \in C : b < c
  BY MadeAreLines DEF SchemaPairs, MadeColumns
<1>16. /\ Cardinality(C \union {c}) = Cardinality(C) + 1
       /\ Place(C \union {c}, c) = Cardinality(C) + 1
       /\ \A b \in C : Place(C \union {c}, b) = Place(C, b)
  BY <1>1, <1>15, PlaceAdded
<1>17. \A b \in C : Place(C, b) \in 1 .. Cardinality(C)
  BY <1>1, <1>15, PlaceIn
<1> HIDE DEF S, C, col
<1> DEFINE old == s[Len(s)]
<1>18. Len(s) \in 1 .. Len(s) /\ old \in SchemaConf
  BY <1>3, <1>6, <1>7, <1>8
<1> DEFINE more == Append(old.columns, col)
           new == [old EXCEPT !.columns = more]
<1>19. t = [s EXCEPT ![Len(s)] = new] /\ old.columns \in Seq([name : Nat, index : Nat])
  BY <1>18 DEF SchemaConf
<1>20. /\ new \in SchemaConf /\ new.database = old.database /\ new.table = old.table
       /\ new.columns = more
  <2>1. more \in Seq([name : Nat, index : Nat])
    BY <1>2, <1>19 DEF col
  <2> HIDE DEF more, old
  <2>2. QED
    BY <1>18, <2>1 DEF SchemaConf
<1> HIDE DEF new, old
<1>21. /\ t \in Seq(SchemaConf) /\ Len(t) = Len(s) /\ t[Len(s)] = new
       /\ \A i \in 1 .. Len(s) : i # Len(s) => t[i] = s[i]
  <2>1. new \in SchemaConf
    BY <1>20
  <2> DEFINE q == [s EXCEPT ![Len(s)] = new]
  <2>2. q \in Seq(SchemaConf) /\ Len(q) = Len(s) /\ DOMAIN s = 1 .. Len(s)
    BY <1>3, <2>1
  <2>3. q[Len(s)] = new /\ \A i \in 1 .. Len(s) : i # Len(s) => q[i] = s[i]
    BY <1>18, <2>2
  <2> HIDE DEF q
  <2>4. t = q
    BY <1>19 DEF q
  <2> HIDE DEF t
  <2>5. QED
    BY <2>2, <2>3, <2>4
<1>22. SchemaIs(old, x, C)
  BY <1>6, <1>7, <1>9 DEF old, C
<1>23. SchemaIs(new, x, C \union {c})
  <2> DEFINE cols == old.columns
  <2>1. Len(cols) = Cardinality(C) /\ Len(cols) \in Nat
    BY <1>19, <1>22 DEF SchemaIs
  <2>2. /\ Len(new.columns) = Len(cols) + 1 /\ new.columns[Len(cols) + 1] = col
        /\ \A i \in 1 .. Len(cols) : new.columns[i] = cols[i]
    BY <1>2, <1>19, <1>20 DEF col
  <2>3. \A b \in C : ColumnIs(new.columns[Place(C \union {c}, b)], b)
    BY <1>16, <1>17, <1>22, <2>1, <2>2 DEF SchemaIs
  <2>4. ColumnIs(new.columns[Place(C \union {c}, c)], c)
    BY <1>16, <2>1, <2>2 DEF ColumnIs, col
  <2>5. QED
    BY <1>16, <1>20, <1>22, <2>1, <2>2, <2>3, <2>4 DEF SchemaIs
<1>24. \A y \in S : SchemaIs(t[Place(S, y)], y, MadeColumns(y, a + 1))
  <2>1. TAKE y \in S
  <2>2. CASE y = x
    BY <1>7, <1>14, <1>21, <1>23, <2>2
  <2>3. CASE y # x
    BY <1>7, <1>8, <1>9, <1>13, <1>21, <2>3
  <2>4. QED
    BY <2>2, <2>3
<1>25. SchemasOK(t, a + 1)
  BY <1>3, <1>4, <1>21, <1>24 DEF SchemasOK
<1>26. QED
  BY <1>25 DEF col

(***************************************************************************)
(* Steps of the second pass.                                               *)
(***************************************************************************)
LEMMA SectionKept ==
    ASSUME file \in Seq(FileLines), file' = file, NEW a \in 1 .. Len(file), SectionOK(a),
           section' = IF IsSection(a) /\ file[a].name \in SchemaLike THEN file[a].name ELSE section
    PROVE  SectionOK(a + 1)'
<1>1. a \in Nat
  OBVIOUS
<1>2. ASSUME NEW n \in 1 .. a, Under(n, a + 1)
      PROVE  section' = file[n].name
  <2>1. CASE IsSection(a) /\ file[a].name \in SchemaLike
    <3>1. n < a => a \in n + 1 .. a + 1 - 1
      BY <1>1
    <3>2. n = a
      BY <1>1, <1>2, <2>1, <3>1 DEF Under
    <3>3. QED
      BY <2>1, <3>2
  <2>2. CASE ~(IsSection(a) /\ file[a].name \in SchemaLike)
    <3>1. n # a
      BY <1>2, <2>2 DEF Under
    <3>2. n \in 1 .. a - 1 /\ \A i \in n + 1 .. a - 1 : i \in n + 1 .. a + 1 - 1
      BY <1>1, <3>1
    <3>3. Under(n, a)
      BY <1>2, <3>2 DEF Under
    <3>4. QED
      BY <2>2, <3>2, <3>3 DEF SectionOK
  <2>3. QED
    BY <2>1, <2>2
<1>3. \A n, b : Under(n, b)' <=> Under(n, b)
  BY Zenon DEF Under, IsSection
<1>4. a + 1 - 1 = a
  BY <1>1
<1>5. QED
  BY <1>2, <1>3, <1>4 DEF SectionOK

\* A line is a key of a section of these names if it says that key and is
\* taken for theirs.
LEMMA KeyIsLine ==
    ASSUME SchemaFileOK, NEW a \in 1 .. Len(file), SectionOK(a),
           NEW N, N \subseteq SchemaLike, NEW key \in DbKeys \union ColumnKeys,
           \A n \in SectionsNamed(N) : LineOK(n, key)
    PROVE  (\E n \in SectionsNamed(N) : a = Line(n, key)) <=>
               file[a].kind = "key" /\ file[a].name = key /\ section \in N
<1>1. ASSUME NEW n \in SectionsNamed(N), a = Line(n, key)
      PROVE  file[a].kind = "key" /\ file[a].name = key /\ section \in N
  <2>1. n \in 1 .. Len(file) /\ IsSection(n) /\ file[n].name \in N /\ LineOK(n, key)
    BY DEF SectionsNamed, SchemaFileOK
  <2>2. Under(n, a)
    BY <1>1, <2>1, LineUnder DEF SchemaFileOK
  <2>3. section = file[n].name
    BY <2>2 DEF SectionOK, Under
  <2>4. QED
    BY <1>1, <2>1, <2>3 DEF LineOK
<1>2. ASSUME file[a].kind = "key", file[a].name = key, section \in N
      PROVE  \E n \in SectionsNamed(N) : a = Line(n, key)
  <2>1. PICK n \in 1 .. a - 1 : Under(n, a) /\ a \in InSection(n, key)
    BY <1>2, KeyUnder
  <2>2. section = file[n].name /\ IsSection(n)
    BY <2>1 DEF SectionOK, Under
  <2>3. n \in SectionsNamed(N)
    <3>1. n \in DOMAIN file
      BY DEF SchemaFileOK
    <3>2. QED
      BY <1>2, <2>2, <3>1 DEF SectionsNamed
  <2>4. QED
    BY <2>1, <2>3 DEF LineOK
<1>3. QED
  BY <1>1, <1>2

\* Before a line, and with what the step makes of it.
Before(a) ==
    /\ SchemaFileOK /\ SchemaPairs /\ a \in 1 .. Len(file) /\ SectionOK(a)
    /\ PairsOK(a) /\ SchemasOK(schemas, a)
After(a) ==
    /\ HalvesOK({"schema"}, "database", "table", db', table', a)
    /\ HalvesOK(ColumnSections, "column_name", "column_index", cname', cindex', a)
    /\ SchemasOK(schemas', a)

DbLine(n, a) == n \in SectionsNamed({"schema"}) /\ \E key \in DbKeys : a = Line(n, key)
ColumnLine(n, a) == n \in SectionsNamed(ColumnSections) /\ \E key \in ColumnKeys : a = Line(n, key)

LEMMA LineOfKey ==
    ASSUME NEW a, Before(a)
    PROVE  /\ \A key \in DbKeys :
                 (\E n \in SectionsNamed({"schema"}) : a = Line(n, key)) <=>
                     file[a].kind = "key" /\ file[a].name = key /\ section = "schema"
           /\ \A key \in ColumnKeys :
                 (\E n \in SectionsNamed(ColumnSections) : a = Line(n, key)) <=>
                     file[a].kind = "key" /\ file[a].name = key /\ section \in ColumnSections
<1>1. /\ {"schema"} \subseteq SchemaLike /\ ColumnSections \subseteq SchemaLike
      /\ SchemaFileOK /\ a \in 1 .. Len(file) /\ SectionOK(a)
  BY SectionsAssumption DEF Before
<1>2. /\ \A n \in SectionsNamed({"schema"}) : \A key \in DbKeys : LineOK(n, key)
      /\ \A n \in SectionsNamed(ColumnSections) : \A key \in ColumnKeys : LineOK(n, key)
  BY DEF Before, SchemaPairs, PairLines, DbKeys, ColumnKeys
<1>3. ASSUME NEW key \in DbKeys
      PROVE  (\E n \in SectionsNamed({"schema"}) : a = Line(n, key)) <=>
                 file[a].kind = "key" /\ file[a].name = key /\ section \in {"schema"}
  BY <1>1, <1>2, KeyIsLine
<1>4. ASSUME NEW key \in ColumnKeys
      PROVE  (\E n \in SectionsNamed(ColumnSections) : a = Line(n, key)) <=>
                 file[a].kind = "key" /\ file[a].name = key /\ section \in ColumnSections
  BY <1>1, <1>2, KeyIsLine
<1>5. QED
  BY <1>3, <1>4

LEMMA DbStays ==
    ASSUME NEW a, Before(a), \A n : ~DbLine(n, a)
    PROVE  /\ HalvesOK({"schema"}, "database", "table", db, table, a + 1)
           /\ \A n \in SectionsNamed({"schema"}) : Whole(n, DbKeys, a + 1) <=> Whole(n, DbKeys, a)
BY HalvesStay DEF Before, SchemaPairs, PairsOK, DbLine, DbKeys

LEMMA ColumnStays ==
    ASSUME NEW a, Before(a), \A n : ~ColumnLine(n, a)
    PROVE  /\ HalvesOK(ColumnSections, "column_name", "column_index", cname, cindex, a + 1)
           /\ \A n \in SectionsNamed(ColumnSections) :
                 Whole(n, ColumnKeys, a + 1) <=> Whole(n, ColumnKeys, a)
BY HalvesStay DEF Before, SchemaPairs, PairsOK, ColumnLine, ColumnKeys

LEMMA NothingComes ==
    ASSUME NEW a, Before(a), \A n : ~DbLine(n, a), \A n : ~ColumnLine(n, a),
           UNCHANGED <<pairs, schemas>>
    PROVE  After(a + 1)
<1>1. UNCHANGED <<db, table, cname, cindex, schemas>>
  BY DEF pairs
<1>2. SchemasOK(schemas, a + 1)
  BY DbStays, ColumnStays, NothingMade DEF Before
<1>3. QED
  BY <1>1, <1>2, DbStays, ColumnStays DEF After

\* Never both halves.
LEMMA OneHalf ==
    ASSUME NEW N, NEW k1, NEW k2, NEW v, NEW w, NEW a, HalvesOK(N, k1, k2, v, w, a)
    PROVE  v = None \/ w = None
BY DEF HalvesOK, Half, Whole

LEMMA SchemaKeyComes ==
    ASSUME Before(at), SchemaKey
    PROVE  After(at + 1)
<1>1. /\ file[at].kind = "key" /\ section = "schema" /\ LineName = file[at].name
      /\ UNCHANGED <<cname, cindex>> /\ at \in 1 .. Len(file)
  BY DEF SchemaKey, LineIs, LineName, Before
<1>2. /\ PairLines({"schema"}, "database", "table")
      /\ HalvesOK({"schema"}, "database", "table", db, table, at) /\ SchemasOK(schemas, at)
      /\ SchemaPairs /\ file \in Seq(FileLines)
  BY DEF Before, SchemaPairs, PairsOK
<1>3. db = None \/ table = None
  BY <1>2, OneHalf
<1>4. \A n : ~ColumnLine(n, at)
  BY <1>1, LineOfKey, SectionsAssumption DEF ColumnLine
<1>5. HalvesOK(ColumnSections, "column_name", "column_index", cname', cindex', at + 1)
  BY <1>1, <1>4, ColumnStays
<1>6. CASE LineName = "database"
  <2>1. PICK n \in SectionsNamed({"schema"}) : at = Line(n, "database")
    BY <1>1, <1>6, LineOfKey DEF DbKeys
  <2>2. /\ db = None /\ table = Half(n, "table", at)
        /\ table # None => HalvesOK({"schema"}, "database", "table", None, None, at + 1)
                           /\ Whole(n, DbKeys, at + 1)
        /\ table = None => HalvesOK({"schema"}, "database", "table", at, None, at + 1)
                           /\ ~Whole(n, DbKeys, at + 1)
        /\ ~Whole(n, DbKeys, at)
        /\ \A m \in SectionsNamed({"schema"}) :
              m # n => (Whole(m, DbKeys, at + 1) <=> Whole(m, DbKeys, at))
        /\ \A m \in SectionsNamed({"schema"}) : Whole(m, DbKeys, at) => m < n
    <3>1. \A k : k \in DbKeys <=> k = "database" \/ k = "table"
      BY DEF DbKeys
    <3>2. QED
      BY <1>2, <2>1, <3>1, HalfComes
  <2>3. CASE table # None
    <3>1. table = Line(n, "table")
      BY <2>2, <2>3 DEF Half
    <3>2. db' = None /\ table' = None /\ schemas' = Append(schemas, Schema(at, table))
      BY <1>1, <1>6, <2>3 DEF SchemaKey, None, Before
    <3>3. SchemasOK(schemas', at + 1)
      BY <1>2, <1>4, <2>1, <2>2, <2>3, <3>1, <3>2, ColumnStays, SchemaMade
    <3>4. QED
      BY <1>5, <2>2, <2>3, <3>2, <3>3 DEF After
  <2>4. CASE table = None
    <3>1. db' = at /\ table' = None /\ schemas' = schemas
      BY <1>6, <2>4 DEF SchemaKey
    <3>2. SchemasOK(schemas', at + 1)
      BY <1>2, <1>4, <2>2, <2>4, <3>1, ColumnStays, NothingMade
    <3>3. QED
      BY <1>5, <2>2, <2>4, <3>1, <3>2 DEF After
  <2>5. QED
    BY <2>3, <2>4
<1>7. CASE LineName = "table"
  <2>1. PICK n \in SectionsNamed({"schema"}) : at = Line(n, "table")
    BY <1>1, <1>7, LineOfKey DEF DbKeys
  <2>2. /\ table = None /\ db = Half(n, "database", at)
        /\ db # None => HalvesOK({"schema"}, "database", "table", None, None, at + 1)
                        /\ Whole(n, DbKeys, at + 1)
        /\ db = None => HalvesOK({"schema"}, "database", "table", None, at, at + 1)
                        /\ ~Whole(n, DbKeys, at + 1)
        /\ ~Whole(n, DbKeys, at)
        /\ \A m \in SectionsNamed({"schema"}) :
              m # n => (Whole(m, DbKeys, at + 1) <=> Whole(m, DbKeys, at))
        /\ \A m \in SectionsNamed({"schema"}) : Whole(m, DbKeys, at) => m < n
    <3>1. \A k : k \in DbKeys <=> k = "database" \/ k = "table"
      BY DEF DbKeys
    <3>2. ~Whole(n, DbKeys, at)
      BY <1>2, <2>1, <3>1, OtherHalfComes
    <3>3. \A m \in SectionsNamed({"schema"}) : Whole(m, DbKeys, at) => m < n
      BY <1>2, <2>1, <3>1, OtherHalfComes
    <3>4. db = Half(n, "database", at) /\ table = None
      BY <1>2, <2>1, <3>1, <3>2, <3>3, OtherHalfComes
    <3>5. \A m \in SectionsNamed({"schema"}) :
              m # n => (Whole(m, DbKeys, at + 1) <=> Whole(m, DbKeys, at))
      BY <1>2, <2>1, <3>1, OtherHalfComes
    <3>6. db # None => HalvesOK({"schema"}, "database", "table", None, None, at + 1)
                       /\ Whole(n, DbKeys, at + 1)
      BY <1>2, <2>1, <3>1, <3>2, <3>3, OtherHalfComes
    <3>7. db = None => HalvesOK({"schema"}, "database", "table", None, at, at + 1)
                       /\ ~Whole(n, DbKeys, at + 1)
      BY <1>2, <2>1, <3>1, OtherHalfComes
    <3>8. QED
      BY <3>2, <3>3, <3>4, <3>5, <3>6, <3>7
  <2>3. CASE db # None
    <3>1. db = Line(n, "database")
      BY <2>2, <2>3 DEF Half
    <3>2. db' = None /\ table' = None /\ schemas' = Append(schemas, Schema(db, at))
      BY <1>1, <1>7, <2>3 DEF SchemaKey, None, Before
    <3>3. SchemasOK(schemas', at + 1)
      BY <1>2, <1>4, <2>1, <2>2, <2>3, <3>1, <3>2, ColumnStays, SchemaMade
    <3>4. QED
      BY <1>5, <2>2, <2>3, <3>2, <3>3 DEF After
  <2>4. CASE db = None
    <3>1. table' = at /\ db' = None /\ schemas' = schemas
      BY <1>7, <2>4 DEF SchemaKey
    <3>2. SchemasOK(schemas', at + 1)
      BY <1>2, <1>4, <2>2, <2>4, <3>1, ColumnStays, NothingMade
    <3>3. QED
      BY <1>5, <2>2, <2>4, <3>1, <3>2 DEF After
  <2>5. QED
    BY <2>3, <2>4
<1>8. CASE LineName \notin DbKeys
  <2>1. UNCHANGED <<pairs, schemas>>
    BY <1>1, <1>3, <1>8 DEF SchemaKey, DbKeys, pairs
  <2>2. \A n : ~DbLine(n, at)
    BY <1>1, <1>8, LineOfKey DEF DbLine
  <2>3. QED
    BY <1>4, <2>1, <2>2, NothingComes
<1>9. QED
  BY <1>6, <1>7, <1>8 DEF DbKeys

LEMMA ColumnKeyComes ==
    ASSUME Before(at), ColumnHalf \/ ColumnAdded
    PROVE  After(at + 1)
<1>1. /\ file[at].kind = "key" /\ section \in ColumnSections /\ LineName = file[at].name
      /\ UNCHANGED <<db, table>> /\ at \in 1 .. Len(file)
  BY DEF ColumnHalf, ColumnAdded, LineIs, LineName, Before
<1>2. /\ PairLines(ColumnSections, "column_name", "column_index")
      /\ HalvesOK(ColumnSections, "column_name", "column_index", cname, cindex, at)
      /\ SchemasOK(schemas, at)
      /\ SchemaPairs /\ file \in Seq(FileLines) /\ "schema" \notin ColumnSections
  BY SectionsAssumption DEF Before, SchemaPairs, PairsOK
<1>3. cname = None \/ cindex = None
  BY <1>2, OneHalf
<1>4. \A n : ~DbLine(n, at)
  BY <1>1, <1>2, LineOfKey DEF DbLine
<1>5. HalvesOK({"schema"}, "database", "table", db', table', at + 1)
  BY <1>1, <1>4, DbStays
<1>6. CASE LineName = "column_name"
  <2>1. PICK c \in SectionsNamed(ColumnSections) : at = Line(c, "column_name")
    BY <1>1, <1>6, LineOfKey DEF ColumnKeys
  <2>2. /\ cname = None /\ cindex = Half(c, "column_index", at)
        /\ cindex # None =>
              HalvesOK(ColumnSections, "column_name", "column_index", None, None, at + 1)
              /\ Whole(c, ColumnKeys, at + 1)
        /\ cindex = None =>
              HalvesOK(ColumnSections, "column_name", "column_index", at, None, at + 1)
              /\ ~Whole(c, ColumnKeys, at + 1)
        /\ ~Whole(c, ColumnKeys, at)
        /\ \A m \in SectionsNamed(ColumnSections) :
              m # c => (Whole(m, ColumnKeys, at + 1) <=> Whole(m, ColumnKeys, at))
        /\ \A m \in SectionsNamed(ColumnSections) : Whole(m, ColumnKeys, at) => m < c
    <3>1. \A k : k \in ColumnKeys <=> k = "column_name" \/ k = "column_index"
      BY DEF ColumnKeys
    <3>2. QED
      BY <1>2, <2>1, <3>1, HalfComes
  <2>3. NameNow = at /\ IndexNow = cindex /\ (Complete <=> cindex # None)
    BY <1>1, <1>6 DEF NameNow, IndexNow, Complete, None
  <2>4. CASE cindex # None
    <3>1. cindex = Line(c, "column_index")
      BY <2>2, <2>4 DEF Half
    <3>2. /\ cname' = None /\ cindex' = None /\ schemas # <<>>
          /\ schemas' = [schemas EXCEPT ![Len(schemas)].columns =
                            Append(@, [name |-> at, index |-> cindex])]
      BY <2>3, <2>4 DEF ColumnHalf, ColumnAdded
    <3>3. SchemasOK(schemas', at + 1)
      BY <1>2, <1>4, <2>1, <2>2, <2>4, <3>1, <3>2, DbStays, ColumnMade
    <3>4. QED
      BY <1>5, <2>2, <2>4, <3>2, <3>3 DEF After
  <2>5. CASE cindex = None
    <3>1. cname' = at /\ cindex' = None /\ schemas' = schemas
      BY <2>3, <2>5 DEF ColumnHalf, ColumnAdded
    <3>2. SchemasOK(schemas', at + 1)
      BY <1>2, <1>4, <2>2, <2>5, <3>1, DbStays, NothingMade
    <3>3. QED
      BY <1>5, <2>2, <2>5, <3>1, <3>2 DEF After
  <2>6. QED
    BY <2>4, <2>5
<1>7. CASE LineName = "column_index"
  <2>1. PICK c \in SectionsNamed(ColumnSections) : at = Line(c, "column_index")
    BY <1>1, <1>7, LineOfKey DEF ColumnKeys
  <2>2. /\ cindex = None /\ cname = Half(c, "column_name", at)
        /\ cname # None =>
              HalvesOK(ColumnSections, "column_name", "column_index", None, None, at + 1)
              /\ Whole(c, ColumnKeys, at + 1)
        /\ cname = None =>
              HalvesOK(ColumnSections, "column_name", "column_index", None, at, at + 1)
              /\ ~Whole(c, ColumnKeys, at + 1)
        /\ ~Whole(c, ColumnKeys, at)
        /\ \A m \in SectionsNamed(ColumnSections) :
              m # c => (Whole(m, ColumnKeys, at + 1) <=> Whole(m, ColumnKeys, at))
        /\ \A m \in SectionsNamed(ColumnSections) : Whole(m, ColumnKeys, at) => m < c
    <3>1. \A k : k \in ColumnKeys <=> k = "column_name" \/ k = "column_index"
      BY DEF ColumnKeys
    <3>2. QED
      BY <1>2, <2>1, <3>1, OtherHalfComes
  <2>3. NameNow = cname /\ IndexNow = at /\ (Complete <=> cname # None)
    BY <1>1, <1>7 DEF NameNow, IndexNow, Complete, None
  <2>4. CASE cname # None
    <3>1. cname = Line(c, "column_name")
      BY <2>2, <2>4 DEF Half
    <3>2. /\ cname' = None /\ cindex' = None /\ schemas # <<>>
          /\ schemas' = [schemas EXCEPT ![Len(schemas)].columns =
                            Append(@, [name |-> cname, index |-> at])]
      BY <2>3, <2>4 DEF ColumnHalf, ColumnAdded
    <3>3. SchemasOK(schemas', at + 1)
      BY <1>2, <1>4, <2>1, <2>2, <2>4, <3>1, <3>2, DbStays, ColumnMade
    <3>4. QED
      BY <1>5, <2>2, <2>4, <3>2, <3>3 DEF After
  <2>5. CASE cname = None
    <3>1. cindex' = at /\ cname' = None /\ schemas' = schemas
      BY <2>3, <2>5 DEF ColumnHalf, ColumnAdded
    <3>2. SchemasOK(schemas', at + 1)
      BY <1>2, <1>4, <2>2, <2>5, <3>1, DbStays, NothingMade
    <3>3. QED
      BY <1>5, <2>2, <2>5, <3>1, <3>2 DEF After
  <2>6. QED
    BY <2>4, <2>5
<1>8. CASE LineName \notin ColumnKeys
  <2>1. NameNow = cname /\ IndexNow = cindex /\ ~Complete
    BY <1>3, <1>8 DEF NameNow, IndexNow, Complete, ColumnKeys
  <2>2. UNCHANGED <<pairs, schemas>>
    BY <1>1, <2>1 DEF ColumnHalf, ColumnAdded, pairs
  <2>3. \A n : ~ColumnLine(n, at)
    BY <1>1, <1>8, LineOfKey DEF ColumnLine
  <2>4. QED
    BY <1>4, <2>2, <2>3, NothingComes
<1>9. QED
  BY <1>6, <1>7, <1>8 DEF ColumnKeys

(***************************************************************************)
(* The invariant is inductive.                                             *)
(***************************************************************************)
\* What stands in the file is the same after a step that leaves it.
LEMMA SameFile ==
    ASSUME file' = file
    PROVE  /\ SchemaFileOK => SchemaFileOK'
           /\ PairsWhole' <=> PairsWhole
           /\ \A a : SchemasOK(schemas', a) => SchemasOK(schemas, a)'
           /\ \A a : After(a) => (PairsOK(a) /\ SchemasOK(schemas, a))'
<1>1. \A n : IsSection(n)' <=> IsSection(n)
  BY Zenon DEF IsSection
<1>2. \A N : SectionsNamed(N)' = SectionsNamed(N)
  BY <1>1, Zenon DEF SectionsNamed
<1>3. \A n, key : InSection(n, key)' = InSection(n, key)
  BY <1>1, Zenon DEF InSection, BodyOf
<1>4. \A n, key : Line(n, key)' = Line(n, key)
  BY <1>3, Zenon DEF Line
<1>5. \A n, K, a : Whole(n, K, a)' <=> Whole(n, K, a)
  BY <1>4, Zenon DEF Whole
<1>6. \A n, key, a : Half(n, key, a)' = Half(n, key, a)
  BY <1>4, Zenon DEF Half
<1>7. \A a : Made(a)' = Made(a)
  BY <1>2, <1>5, Zenon DEF Made
<1>8. \A n, a : MadeColumns(n, a)' = MadeColumns(n, a)
  BY <1>2, <1>5, Zenon DEF MadeColumns, ColumnsBelow
<1>9. \A s, n, cols : SchemaIs(s, n, cols)' <=> SchemaIs(s, n, cols)
  BY <1>4, Zenon DEF SchemaIs, ColumnIs
<1>10. \A a : SchemasOK(schemas', a) => SchemasOK(schemas, a)'
  BY <1>7, <1>8, <1>9, Zenon DEF SchemasOK
<1>11. \A a : After(a) => (PairsOK(a) /\ SchemasOK(schemas, a))'
  <2>1. \A a : After(a) => PairsOK(a)'
    BY <1>2, <1>5, <1>6, Zenon DEF After, PairsOK, HalvesOK
  <2>2. QED
    BY <1>10, <2>1 DEF After
<1>12. PairsWhole' <=> PairsWhole
  BY <1>2, <1>3, Zenon DEF PairsWhole
<1>13. SchemaFileOK => SchemaFileOK'
  BY DEF SchemaFileOK, KeysAtHome
<1>14. QED
  BY <1>10, <1>11, <1>12, <1>13

LEMMA SchemaInit ==
    ASSUME \A s \in Scenarios : KeysAtHome(s.file), Init
    PROVE  SchemaInv
<1>1. PICK s \in Scenarios : file = s.file
  BY DEF Init
<1>2. SchemaFileOK
  BY <1>1, ScenariosAssumption DEF SchemaFileOK
<1>3. QED
  BY <1>2 DEF Init, FreshConfig, SchemaInv

\* The pairs of the file, in lines.
LEMMA WholePairs ==
    ASSUME SchemaFileOK, PairsWhole
    PROVE  SchemaPairs
BY SchemaLines DEF SchemaPairs, PairLines, SchemaFileOK, DbKeys, ColumnKeys

\* The second pass begins with no section, no half and no schema.
LEMMA SecondPass ==
    ASSUME SchemaInv, pass = "common", CommEnd
    PROVE  SchemaInv'
<1>1. /\ file' = file /\ pass' = "schema" /\ at' = 1 /\ SchemaFileOK
      /\ db' = None /\ table' = None /\ cname' = None /\ cindex' = None /\ schemas' = <<>>
  BY DEF SchemaInv, CommEnd, pairs
<1>2. SchemaFileOK' /\ (PairsWhole' <=> PairsWhole)
      /\ (After(1) => (PairsOK(1) /\ SchemasOK(schemas, 1))')
  BY <1>1, SameFile
<1>3. at' \in 1 .. Len(file') + 1
  BY <1>1 DEF SchemaFileOK
<1>4. SectionOK(1)'
  <2>1. ~(\E n : n \in 1 .. 1 - 1)
    OBVIOUS
  <2>2. QED
    BY <2>1 DEF SectionOK
<1>5. ASSUME PairsWhole PROVE After(1)
  <2>1. SchemaPairs
    BY <1>1, <1>5, WholePairs
  <2>2. \A n \in SectionsNamed({"schema"}) :
           n \in Nat /\ Line(n, "database") \in Nat /\ n < Line(n, "database") /\ 1 <= n
    BY <2>1, LineNumbers DEF SchemaPairs
  <2>3. \A n \in SectionsNamed({"schema"}) : ~(n < 1) /\ ~(Line(n, "database") < 1)
    BY <2>2
  <2>4. \A n \in SectionsNamed(ColumnSections) : ~(n < 1)
    BY <2>1 DEF SchemaPairs, SectionsNamed
  <2>5. Made(1) = {}
    BY <2>3 DEF Made, Whole, DbKeys
  <2>6. SchemasOK(schemas', 1)
    BY <1>1, <2>5, FS_EmptySet DEF SchemasOK
  <2>7. QED
    BY <1>1, <2>3, <2>4, <2>6 DEF After, HalvesOK
<1>6. QED
  BY <1>1, <1>2, <1>3, <1>4, <1>5 DEF SchemaInv

\* A line of the second pass.
LEMMA SchemaLineRead ==
    ASSUME SchemaInv, pass = "schema",
           SkipLine \/ SchemaSection \/ SchemaKey \/ ColumnHalf \/ ColumnAdded \/ ForeignKey
    PROVE  SchemaInv'
<1>1. /\ file' = file /\ pass' = "schema" /\ at' = at + 1 /\ SchemaFileOK /\ SectionOK(at)
      /\ at \in 1 .. Len(file) + 1 /\ at <= Len(file) /\ Len(file) \in Nat
      /\ PairsWhole => PairsOK(at) /\ SchemasOK(schemas, at)
  BY DEF SchemaInv, SkipLine, SchemaSection, SchemaKey, ColumnHalf, ColumnAdded, ForeignKey,
         LineIs, SchemaFileOK
<1>2. PICK a \in 1 .. Len(file) : a = at
  BY <1>1
<1>3. a \in Nat /\ at' = a + 1
  BY <1>1, <1>2
<1>4. SchemaFileOK' /\ (PairsWhole' <=> PairsWhole)
      /\ (After(a + 1) => (PairsOK(a + 1) /\ SchemasOK(schemas, a + 1))')
  BY <1>1, SameFile
<1>5. section' = IF IsSection(a) /\ file[a].name \in SchemaLike THEN file[a].name ELSE section
  BY <1>2 DEF SkipLine, SchemaSection, SchemaKey, ColumnHalf, ColumnAdded, ForeignKey,
              LineIs, LineName, IsSection
<1>6. SectionOK(a + 1)'
  BY <1>1, <1>2, <1>5, SectionKept DEF SchemaFileOK
<1>7. ASSUME PairsWhole PROVE After(a + 1)
  <2>1. Before(a)
    BY <1>1, <1>2, <1>7, WholePairs DEF Before
  <2>2. CASE SkipLine \/ SchemaSection
    <3>1. file[a].kind # "key" /\ UNCHANGED <<pairs, schemas>>
      BY <1>2, <2>2 DEF SkipLine, SchemaSection, LineIs
    <3>2. QED
      BY <2>1, <3>1, LineOfKey, NothingComes DEF DbLine, ColumnLine
  <2>3. CASE ForeignKey
    <3>1. section # "schema" /\ section \notin ColumnSections /\ UNCHANGED <<pairs, schemas>>
      BY <2>3 DEF ForeignKey
    <3>2. QED
      BY <2>1, <3>1, LineOfKey, NothingComes DEF DbLine, ColumnLine
  <2>4. CASE SchemaKey
    BY <1>2, <2>1, <2>4, SchemaKeyComes
  <2>5. CASE ColumnHalf \/ ColumnAdded
    BY <1>2, <2>1, <2>5, ColumnKeyComes
  <2>6. QED
    BY <2>2, <2>3, <2>4, <2>5
<1>8. at' \in 1 .. Len(file') + 1
  BY <1>1, <1>2
<1>9. SectionOK(at)' /\ (PairsWhole' => (PairsOK(at) /\ SchemasOK(schemas, at))')
  BY <1>3, <1>4, <1>6, <1>7 DEF SectionOK, PairsOK
<1>10. QED
  BY <1>1, <1>4, <1>8, <1>9 DEF SchemaInv

\* A step that leaves the loader as it is.
LEMMA SchemaIdle ==
    ASSUME SchemaInv, UNCHANGED configVars
    PROVE  SchemaInv'
<1>1. /\ file' = file /\ pass' = pass /\ at' = at /\ section' = section
      /\ db' = db /\ table' = table /\ cname' = cname /\ cindex' = cindex /\ schemas' = schemas
  BY DEF configVars, pairs
<1>2. SchemaFileOK' /\ (PairsWhole' <=> PairsWhole)
      /\ \A a : After(a) => (PairsOK(a) /\ SchemasOK(schemas, a))'
  BY <1>1, SameFile DEF SchemaInv
<1>3. CASE pass = "schema"
  <2>1. PICK a \in 1 .. Len(file) + 1 : a = at
    BY <1>3 DEF SchemaInv
  <2>2. SectionOK(a) /\ (PairsWhole => PairsOK(a) /\ SchemasOK(schemas, a))
    BY <1>3, <2>1 DEF SchemaInv
  <2>3. SectionOK(a)'
    BY <1>1, <2>2, Zenon DEF SectionOK, Under, IsSection
  <2>4. PairsWhole => After(a)
    BY <1>1, <2>2 DEF After, PairsOK
  <2>5. PairsWhole' => (PairsOK(a) /\ SchemasOK(schemas, a))'
    BY <1>2, <2>4
  <2>6. SectionOK(at)' /\ (PairsWhole' => (PairsOK(at) /\ SchemasOK(schemas, at))')
    <3>1. at' = a
      BY <1>1, <2>1
    <3>2. QED
      BY <2>3, <2>5, <3>1 DEF SectionOK, PairsOK
  <2>7. QED
    BY <1>1, <1>2, <1>3, <2>1, <2>6 DEF SchemaInv
<1>4. CASE pass = "loaded"
  <2>1. PICK a : a = Len(file) + 1
    OBVIOUS
  <2>2. PairsWhole => SchemasOK(schemas, a)'
    <3>1. PairsWhole => SchemasOK(schemas', a)
      BY <1>1, <1>4, <2>1 DEF SchemaInv
    <3>2. QED
      BY <1>1, <3>1, SameFile
  <2>3. PairsWhole' => SchemasOK(schemas, Len(file) + 1)'
    BY <1>1, <1>2, <2>1, <2>2
  <2>4. QED
    BY <1>1, <1>2, <1>4, <2>3 DEF SchemaInv
<1>5. CASE pass \notin {"schema", "loaded"}
  BY <1>1, <1>2, <1>5 DEF SchemaInv
<1>6. QED
  BY <1>3, <1>4, <1>5

LEMMA SchemaNext ==
    ASSUME SchemaInv, [Next]_vars
    PROVE  SchemaInv'
<1>1. CASE UNCHANGED configVars
  BY <1>1, SchemaIdle
<1>2. CASE FreshConfigNext /\ UNCHANGED file
  <2>1. SchemaFileOK'
    BY <1>2, SameFile DEF SchemaInv
  <2>2. QED
    BY <1>2, <2>1 DEF FreshConfigNext, SchemaInv
<1>3. CASE Load
  <2>1. CASE CommSection \/ CommKey \/ (pass = "common" /\ SkipLine)
    <3>1. /\ file' = file /\ pass = "common" /\ pass' = "common"
          /\ db' = db /\ table' = table /\ cname' = cname /\ cindex' = cindex
          /\ schemas' = schemas
      BY <2>1 DEF CommSection, CommKey, SkipLine, LineIs, pairs
    <3>2. SchemaFileOK'
      BY <3>1, SameFile DEF SchemaInv
    <3>3. QED
      BY <3>1, <3>2 DEF SchemaInv
  <2>2. CASE CommEnd
    BY <2>2, SecondPass DEF CommEnd
  <2>3. CASE \/ pass = "schema" /\ SkipLine
             \/ SchemaSection \/ SchemaKey \/ ColumnHalf \/ ColumnAdded \/ ForeignKey
    BY <2>3, SchemaLineRead
       DEF SchemaSection, SchemaKey, ColumnHalf, ColumnAdded, ForeignKey, LineIs
  <2>4. CASE ColumnDies
    <3>1. file' = file /\ pass' = "died"
      BY <2>4 DEF ColumnDies
    <3>2. SchemaFileOK'
      BY <3>1, SameFile DEF SchemaInv
    <3>3. QED
      BY <3>1, <3>2 DEF SchemaInv
  <2>5. CASE SchemaEnd
    <3>1. /\ file' = file /\ pass = "schema" /\ pass' = "loaded" /\ schemas' = schemas
          /\ at > Len(file)
      BY <2>5 DEF SchemaEnd
    <3>2. PICK a : a = Len(file) + 1
      OBVIOUS
    <3>3. at = a
      BY <3>1, <3>2 DEF SchemaInv, SchemaFileOK
    <3>4. PairsWhole => SchemasOK(schemas', a)
      BY <3>1, <3>3 DEF SchemaInv
    <3>5. /\ SchemaFileOK' /\ (PairsWhole' <=> PairsWhole)
          /\ PairsWhole => SchemasOK(schemas, a)'
      BY <3>1, <3>4, SameFile DEF SchemaInv
    <3>6. PairsWhole' => SchemasOK(schemas, Len(file) + 1)'
      BY <3>1, <3>2, <3>5
    <3>7. QED
      BY <3>1, <3>5, <3>6 DEF SchemaInv
  <2>6. SkipLine => pass \in {"common", "schema"}
    BY DEF SkipLine, LineIs
  <2>7. QED
    BY <1>3, <2>1, <2>2, <2>3, <2>4, <2>5, <2>6 DEF Load, LoadCommConf, LoadSchemaConf
<1>4. QED
  BY <1>1, <1>2, <1>3, ConfigStep

(***************************************************************************)
(* What is made of the whole file.                                         *)
(***************************************************************************)
LEMMA SchemaInvFinds == SchemaInv => SchemasFound
<1> SUFFICES ASSUME SchemaInv, pass = "loaded", PairsWhole
             PROVE  SchemasFound
  BY DEF SchemasFound
<1> DEFINE tops == SectionsNamed({"schema"})
           end == Len(file) + 1
<1>1. SchemaFileOK /\ SchemasOK(schemas, end) /\ SchemaPairs /\ Len(file) \in Nat
  BY WholePairs DEF SchemaInv, SchemaFileOK
<1>2. \A n \in tops : Whole(n, DbKeys, end)
  <2>1. TAKE n \in tops
  <2>2. /\ Line(n, "database") \in Nat /\ Line(n, "database") <= Len(file)
        /\ Line(n, "table") \in Nat /\ Line(n, "table") <= Len(file)
    BY <1>1, LineNumbers DEF SchemaPairs
  <2>3. QED
    BY <1>1, <2>2 DEF Whole, DbKeys
<1>3. \A c \in SectionsNamed(ColumnSections) : Whole(c, ColumnKeys, end)
  <2>1. TAKE c \in SectionsNamed(ColumnSections)
  <2>2. /\ Line(c, "column_name") \in Nat /\ Line(c, "column_name") <= Len(file)
        /\ Line(c, "column_index") \in Nat /\ Line(c, "column_index") <= Len(file)
    BY <1>1, LineNumbers DEF SchemaPairs
  <2>3. QED
    BY <1>1, <2>2 DEF Whole, ColumnKeys
<1>4. Made(end) = tops /\ \A n : MadeColumns(n, end) = ColumnsBelow(n)
  BY <1>2, <1>3 DEF Made, MadeColumns, ColumnsBelow
<1>5. /\ Len(schemas) = Cardinality(tops)
      /\ \A n \in tops : SchemaIs(schemas[Place(tops, n)], n, ColumnsBelow(n))
  BY <1>1, <1>4 DEF SchemasOK
<1>6. \A n \in tops : \A key \in DbKeys : Line(n, key) \in InSection(n, key)
  BY <1>1 DEF SchemaPairs, PairLines, LineOK, DbKeys
<1>7. \A c \in SectionsNamed(ColumnSections) : \A key \in ColumnKeys :
         Line(c, key) \in InSection(c, key)
  BY <1>1 DEF SchemaPairs, PairLines, LineOK, ColumnKeys
<1>8. ASSUME NEW n \in tops
      PROVE  LET s == schemas[Cardinality({m \in tops : m <= n})]
                 cols == ColumnsBelow(n)
             IN  /\ s.database \in InSection(n, "database") /\ s.table \in InSection(n, "table")
                 /\ Len(s.columns) = Cardinality(cols)
                 /\ \A c \in cols :
                       LET col == s.columns[Cardinality({b \in cols : b <= c})]
                       IN  /\ col.name \in InSection(c, "column_name")
                           /\ col.index \in InSection(c, "column_index")
  <2> DEFINE s == schemas[Place(tops, n)]
             cols == ColumnsBelow(n)
  <2>1. SchemaIs(s, n, cols)
    BY <1>5
  <2>2. \A c \in cols : c \in SectionsNamed(ColumnSections)
    BY DEF ColumnsBelow
  <2>3. /\ s.database \in InSection(n, "database") /\ s.table \in InSection(n, "table")
        /\ Len(s.columns) = Cardinality(cols)
    BY <1>6, <2>1 DEF SchemaIs, DbKeys
  <2>4. \A c \in cols :
           /\ s.columns[Place(cols, c)].name \in InSection(c, "column_name")
           /\ s.columns[Place(cols, c)].index \in InSection(c, "column_index")
    BY <1>7, <2>1, <2>2 DEF SchemaIs, ColumnIs, ColumnKeys
  <2>5. QED
    BY <2>3, <2>4 DEF Place
<1>9. QED
  BY <1>5, <1>8 DEF SchemasFound

\* Whatever the file says, with any number of schemas and columns, common
\* sections in between and the halves of every pair in either order: the
\* schemas loaded are those that stand in it, each with its own database and
\* table and with the columns below it; provided those keys stand in sections
\* named like schemas, once in each (LoadSchemaConf, config.cc:75-157).
THEOREM SchemasAlwaysFound ==
    ASSUME \A s \in Scenarios : KeysAtHome(s.file)
    PROVE  Spec => []SchemasFound
<1>1. Init => SchemaInv
  BY SchemaInit
<1>2. SchemaInv /\ [Next]_vars => SchemaInv'
  BY SchemaNext
<1>3. SchemaInv => SchemasFound
  BY SchemaInvFinds
<1>4. QED
  BY <1>1, <1>2, <1>3, PTL DEF Spec

(***************************************************************************)
(* Types.  That of comm is needed for the addresses found in it.           *)
(***************************************************************************)
ConfigTypes ==
    /\ file \in Seq(FileLines)
    /\ pass \in {"common", "schema", "loaded", "died"}
    /\ at \in 1 .. Len(file) + 1
    /\ keys \in Seq(DOMAIN file)
    /\ \A sec \in DOMAIN comm : comm[sec] \in Seq(DOMAIN file)
    /\ {db, table, cname, cindex} \subseteq {None} \union DOMAIN file
    /\ None \in {db, table} /\ None \in {cname, cindex}

StartTypes ==
    /\ stage \in [Procs -> Stages] /\ daemon \in [Procs -> BOOLEAN]
    /\ pid \in [Procs -> Pids \union {0}] /\ others \subseteq Pids
    /\ pidfile \in Pids \union {NoFile, Empty}
    /\ conf \in [Procs -> {None} \union DOMAIN file] /\ unguarded \in BOOLEAN
    /\ given \in [Procs -> Seq(-2 .. 255)] /\ finals \subseteq Seq(-2 .. 255)

\* What the configured password can be is a text.
FinalsAreTexts(s) == FinalPasswords(s.password) \subseteq Seq(-2 .. 255)

LEMMA InitTypes ==
    ASSUME \A s \in Scenarios : FinalsAreTexts(s), Init
    PROVE  ConfigTypes /\ StartTypes
<1>1. PICK s \in Scenarios :
         /\ file = s.file
         /\ password = s.password /\ finals = FinalPasswords(password)
         /\ stage = [p \in Procs |-> IF p \in s.starts THEN "new" ELSE "gone"]
         /\ \E d \in s.daemons : daemon = [p \in Procs |-> p \in d]
  BY DEF Init
<1>2. file \in Seq(FileLines)
  BY <1>1, ScenariosAssumption
<1>3. ConfigTypes
  BY <1>2 DEF Init, FreshConfig, ConfigTypes, None
<1>4. stage \in [Procs -> Stages] /\ daemon \in [Procs -> BOOLEAN]
  BY <1>1 DEF Stages
<1>5. finals \subseteq Seq(-2 .. 255)
  BY <1>1 DEF FinalsAreTexts
<1>6. <<>> \in Seq(-2 .. 255)
  OBVIOUS
<1>7. QED
  BY <1>3, <1>4, <1>5, <1>6 DEF Init, StartTypes, NoFile, NotAsked

LEMMA LoadTypes ==
    ASSUME ConfigTypes, Load
    PROVE  ConfigTypes'
<1>1. Len(file) \in Nat /\ DOMAIN file = 1 .. Len(file) /\ file' = file
  BY DEF ConfigTypes, Load, LoadCommConf, LoadSchemaConf, CommSection, CommKey, CommEnd,
         SkipLine, SchemaSection, SchemaKey, ColumnHalf, ColumnAdded, ColumnDies, ForeignKey,
         SchemaEnd
<1>2. 1 \in 1 .. Len(file) + 1 /\ (at <= Len(file) => at \in DOMAIN file /\ at # None
                                      /\ at + 1 \in 1 .. Len(file) + 1)
  BY <1>1 DEF ConfigTypes, None
<1>3. <<>> \in Seq(DOMAIN file)
  OBVIOUS
<1>4. CASE CommSection
  <2>1. keys' \in Seq(DOMAIN file)
    BY <1>3, <1>4 DEF CommSection, ConfigTypes
  <2>2. \A sec \in DOMAIN Stored : Stored[sec] \in Seq(DOMAIN file)
    BY DEF Stored, ConfigTypes
  <2>3. \A sec \in DOMAIN comm' : comm'[sec] \in Seq(DOMAIN file)
    BY <1>4, <2>2 DEF CommSection, ConfigTypes
  <2>4. QED
    BY <1>1, <1>2, <1>4, <2>1, <2>3 DEF CommSection, LineIs, ConfigTypes, pairs
<1>5. CASE CommKey
  <2>1. Append(keys, at) \in Seq(DOMAIN file)
    BY <1>2, <1>5 DEF CommKey, LineIs, ConfigTypes
  <2>2. QED
    BY <1>1, <1>2, <1>5, <2>1 DEF CommKey, LineIs, ConfigTypes, pairs
<1>6. CASE CommEnd
  BY <1>1, <1>2, <1>3, <1>6 DEF CommEnd, ConfigTypes, pairs
<1>7. CASE SkipLine \/ SchemaSection \/ ForeignKey \/ ColumnDies
  BY <1>1, <1>2, <1>7
     DEF SkipLine, SchemaSection, ForeignKey, ColumnDies, LineIs, ConfigTypes, pairs
<1>8. CASE SchemaKey
  <2>1. /\ at <= Len(file) /\ at' = at + 1 /\ UNCHANGED <<file, pass, keys, comm, cname, cindex>>
        /\ \/ db' = None /\ table' = None
           \/ /\ db' \in {db, at} /\ table' \in {table, at} /\ (db' = None \/ table' = None)
    BY <1>8 DEF SchemaKey, LineIs
  <2>2. QED
    BY <1>1, <1>2, <2>1 DEF ConfigTypes
<1>9. CASE ColumnHalf \/ ColumnAdded
  <2>1. /\ at <= Len(file) /\ at' = at + 1 /\ UNCHANGED <<file, pass, keys, comm, db, table>>
        /\ cname' \in {None, cname, at} /\ cindex' \in {None, cindex, at}
        /\ (cname' = None \/ cindex' = None)
    BY <1>9 DEF ColumnHalf, ColumnAdded, NameNow, IndexNow, Complete, LineIs
  <2>2. QED
    BY <1>1, <1>2, <2>1 DEF ConfigTypes
<1>10. CASE SchemaEnd
  BY <1>1, <1>10 DEF SchemaEnd, ConfigTypes, pairs
<1>11. QED
  BY <1>4, <1>5, <1>6, <1>7, <1>8, <1>9, <1>10 DEF Load, LoadCommConf, LoadSchemaConf

\* An address found is a line of the file.
LEMMA AddressFound ==
    ASSUME ConfigTypes, NEW sec, NEW key
    PROVE  GetConfig(sec, key) \in {None} \union DOMAIN file
<1> DEFINE found == {i \in DOMAIN comm[sec] : file[comm[sec][i]].name = key}
<1>1. CASE sec \in DOMAIN comm /\ found # {}
  <2>1. comm[sec] \in Seq(DOMAIN file)
    BY <1>1 DEF ConfigTypes
  <2>2. Min(found) \in found
    BY <1>1, <2>1, LeastOf
  <2>3. comm[sec][Min(found)] \in DOMAIN file
    <3>1. Min(found) \in 1 .. Len(comm[sec])
      BY <2>1, <2>2
    <3>2. QED
      BY <2>1, <3>1, Element
  <2>4. QED
    BY <1>1, <2>3 DEF GetConfig
<1>2. CASE ~(sec \in DOMAIN comm /\ found # {})
  BY <1>2 DEF GetConfig
<1>3. QED
  BY <1>1, <1>2

LEMMA ConfigTypesStep ==
    ASSUME ConfigTypes, [Next]_vars
    PROVE  ConfigTypes' /\ file' = file
<1>1. CASE UNCHANGED configVars
  BY <1>1 DEF configVars, pairs, ConfigTypes
<1>2. CASE Load
  BY <1>2, LoadTypes
     DEF Load, LoadCommConf, LoadSchemaConf, CommSection, CommKey, CommEnd, SkipLine,
         SchemaSection, SchemaKey, ColumnHalf, ColumnAdded, ColumnDies, ForeignKey, SchemaEnd
<1>3. CASE FreshConfigNext /\ UNCHANGED file
  <2>1. 1 \in 1 .. Len(file) + 1 /\ <<>> \in Seq(DOMAIN file) /\ DOMAIN <<>> = {}
    BY DEF ConfigTypes
  <2>2. QED
    BY <1>3, <2>1 DEF FreshConfigNext, ConfigTypes
<1>4. QED
  BY <1>1, <1>2, <1>3, ConfigStep

LEMMA StartTypesStep ==
    ASSUME ConfigTypes, StartTypes, [Next]_vars
    PROVE  StartTypes'
<1> DEFINE Texts == Seq(-2 .. 255)
           Lines == {None} \union DOMAIN file
<1>1. file' = file /\ <<>> \in Texts
  BY ConfigTypesStep
<1>2. /\ stage \in [Procs -> Stages] /\ daemon \in [Procs -> BOOLEAN]
      /\ pid \in [Procs -> Pids \union {0}] /\ others \subseteq Pids
      /\ pidfile \in Pids \union {NoFile, Empty}
      /\ conf \in [Procs -> Lines] /\ unguarded \in BOOLEAN
      /\ given \in [Procs -> Texts] /\ finals \subseteq Texts
  BY DEF StartTypes
<1>3. SUFFICES
         /\ stage' \in [Procs -> Stages] /\ daemon' \in [Procs -> BOOLEAN]
         /\ pid' \in [Procs -> Pids \union {0}] /\ others' \subseteq Pids
         /\ pidfile' \in Pids \union {NoFile, Empty}
         /\ conf' \in [Procs -> Lines] /\ unguarded' \in BOOLEAN
         /\ given' \in [Procs -> Texts] /\ finals' \subseteq Texts
  BY <1>1 DEF StartTypes
<1>4. GetConfig("mysql", "mysql_ip") \in Lines
  BY AddressFound
<1> HIDE DEF Texts, Lines
<1>5. CASE LoadLine \/ UNCHANGED vars
  BY <1>2, <1>5 DEF LoadLine, vars, procVars, secretVars
<1>6. CASE OtherProcess
  BY <1>2, <1>6 DEF OtherProcess, Free, secretVars
<1>7. ASSUME NEW p \in Procs, Start(p)
      PROVE  pid'[p] \in Pids \union {0} /\ pid' \in [Procs -> Pids \union {0}]
             /\ stage' \in [Procs -> Stages]
  BY <1>2, <1>7 DEF Start, Moves, Free, Stages
<1>8. ASSUME NEW p \in Procs, Start(p) \/ Step(p) \/ Killed(p)
      PROVE  /\ stage' \in [Procs -> Stages] /\ daemon' \in [Procs -> BOOLEAN]
             /\ pid' \in [Procs -> Pids \union {0}] /\ others' \subseteq Pids
             /\ pidfile' \in Pids \union {NoFile, Empty}
             /\ conf' \in [Procs -> Lines] /\ unguarded' \in BOOLEAN
             /\ given' \in [Procs -> Texts] /\ finals' \subseteq Texts
  <2>1. CASE Start(p)
    BY <1>2, <1>7, <2>1 DEF Start, secretVars
  <2>2. CASE Loaded(p)
    BY <1>2, <1>4, <2>2 DEF Loaded, Moves, Stages, secretVars
  <2>3. CASE LoadDied(p) \/ Refused(p) \/ ConnectFails(p) \/ Killed(p) \/ OpenPidFileFails(p)
    BY <1>1, <1>2, <2>3
       DEF LoadDied, Refused, ConnectFails, Killed, OpenPidFileFails, Gone, Moves, Stages,
           NotAsked, secretVars
  <2>4. CASE Passed(p)
    BY <1>2, <2>4 DEF Passed, Moves, Stages, Unwritten, secretVars
  <2>5. CASE Fork(p) \/ OpenPidFile(p)
    BY <1>2, <2>5 DEF Fork, OpenPidFile, Moves, Stages, Free, secretVars
  <2>6. CASE WritePidFile(p)
    BY <1>2, <2>6 DEF WritePidFile, Moves, Stages, Empty, secretVars
  <2>7. CASE Connect(p) \/ ConnectSkipped(p)
    BY <1>2, <2>7 DEF Connect, ConnectSkipped, Moves, Stages, secretVars
  <2>8. QED
    BY <1>8, <2>1, <2>2, <2>3, <2>4, <2>5, <2>6, <2>7 DEF Step
<1>9. QED
  BY <1>5, <1>6, <1>8 DEF Next, Texts, Lines

\* Every variable keeps its type, whatever the file says and however the starts
\* and faults come together, provided that what Connect can make of a password
\* is a text (config.h, process.h).
THEOREM StartupTypes ==
    ASSUME \A s \in Scenarios : FinalsAreTexts(s)
    PROVE  Spec => []TypeOK
<1>1. Init => ConfigTypes /\ StartTypes
  BY InitTypes
<1>2. ConfigTypes /\ StartTypes /\ [Next]_vars => (ConfigTypes /\ StartTypes)'
  BY ConfigTypesStep, StartTypesStep
<1>3. ConfigTypes /\ StartTypes => TypeOK
  BY DEF ConfigTypes, StartTypes, TypeOK
<1>4. QED
  BY <1>1, <1>2, <1>3, PTL DEF Spec
==============================================================================
