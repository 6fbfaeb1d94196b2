----------------------------- MODULE FlagServer -----------------------------
(***************************************************************************)
(* The ECSC flag submission server and what it lives on:                   *)
(*                                                                         *)
(*   workers    threads that take a line, check the flag, ask the cache    *)
(*              and insert it (flagchecker.cpp, flagcache.cpp,             *)
(*              database.cpp), each with a database connection of its own  *)
(*   main       the thread that looks for new teams (periodic.cpp) and     *)
(*              follows the game, of which GameView says what it may learn *)
(*   database   commits before it writes to disk (synchronous_commit OFF); *)
(*              a crash loses the last of the commits                      *)
(*   scoring    the control server has a tick scored once it is over       *)
(***************************************************************************)
EXTENDS FlagCache, GameView, FiniteSets, Sequences

CONSTANTS
    Workers,       \* worker threads
    main,          \* the main thread, as the owner of a database connection
    Submissions,   \* what is submitted: by, team, service, round, payload, mac
    NoVal,         \* no value
    Services,      \* max_service_id, service_count
    MinTeams,      \* the least max_team_id main() starts with
    NopTeam,       \* Config::nopTeamId
    TestService,   \* FLAG_SERVICE_CHECK_LIMIT: from here on flags are test flags
    TestRound,     \* rounds above it are test runs' (0x7fff)
    RoundsValid,   \* Config::flagRoundsValid
    TeamCounts,    \* values of max(id) of teams
    MaxLines,      \* bound: lines submitted that get past the checks
    MaxCrashes,    \* bound: crashes of the database
    MaxExits       \* bound: ends of the process for reasons outside this module

ASSUME ServerAssumption ==
    /\ main \notin Workers /\ NoVal \notin Submissions \cup Int
    /\ RoundsValid \in Nat /\ Services \in Nat \ {0}
    /\ MinTeams \in Nat /\ TeamCounts \subseteq Nat \ {0}
    /\ TestRound \in Nat /\ TestRound < 65536
    /\ Submissions \subseteq [by : Nat, team : Nat, service : Nat,
                              round : Nat \ {0}, payload : Nat, mac : BOOLEAN]

VARIABLES
    due,         \* ticks that are over and not yet scored
    scored,      \* submissions counted when their tick was scored
    dbTeams,     \* max(id) of teams in the database
    teams,       \* max_team_id and team_count
    size,        \* length of the cache's array
    resizing,    \* where initModelSizes is: "no", "counts", "array"
    cache,       \* FlagCache::cache, without the slots that are 0
    pc, job,     \* per worker: where it is, and with which submission
    slot, tick,  \* per worker: index computed for the cache, round read for the INSERT
    conn,        \* per thread, its libpq connection: "none" (or known to be broken),
                 \* "ok", or "bad": broken, which only its next use will tell
    dbUp,        \* the database runs
    rows,        \* submitted_flags in order of commit
    synced,      \* how many of them are on disk since the last recovery
    lines, crashes, exits,
    oks, losses, \* history, per submission: [OK] answers; rows lost in a crash
    tried, old,  \* history: submissions that got past the cache; answered as old
    resized      \* history: the cache was resized while workers ran

scoreVars == <<due, scored>>
memVars   == <<teams, size, resizing, cache>>
workVars  == <<pc, job, slot, tick>>
dbVars    == <<dbTeams, dbUp, rows, synced>>
histVars  == <<oks, losses, tried, old, resized>>
vars == <<viewVars, scoreVars, memVars, workVars, dbVars, histVars, conn, lines, crashes, exits>>

Threads == Workers \cup {main}
Stored(s) == \E i \in 1..Len(rows) : rows[i].sub = s
Larger(a, b) == IF a > b THEN a ELSE b

Init ==
    /\ ViewInit
    /\ due = {} /\ scored = {}
    /\ dbTeams \in {n \in TeamCounts : \A m \in TeamCounts : n <= m}
    /\ teams = 0 /\ size = 0 /\ resizing = "no" /\ cache = NoMarks
    /\ pc = [w \in Workers |-> "idle"] /\ job = [w \in Workers |-> NoVal]
    /\ slot = [w \in Workers |-> NoVal] /\ tick = [w \in Workers |-> NoVal]
    /\ conn = [t \in Threads |-> "none"]
    /\ dbUp = TRUE /\ rows = <<>> /\ synced = 0
    /\ lines = 0 /\ crashes = 0 /\ exits = 0
    /\ oks = [s \in Submissions |-> 0] /\ losses = [s \in Submissions |-> 0]
    /\ tried = {} /\ old = {} /\ resized = FALSE

(***************************************************************************)
(* The process.  An exception nobody catches ends it; the container's      *)
(* restart policy starts it again.  main() sizes the model by the          *)
(* database and throws while that is down.                                 *)
(***************************************************************************)
Die ==
    /\ Down
    /\ resizing' = "no"
    /\ pc' = [w \in Workers |-> "idle"] /\ job' = [w \in Workers |-> NoVal]
    /\ slot' = [w \in Workers |-> NoVal] /\ tick' = [w \in Workers |-> NoVal]
    /\ conn' = [t \in Threads |-> "none"]

Start ==
    /\ Up /\ dbUp
    /\ teams' = Larger(MinTeams, dbTeams + 2)
    /\ size' = SlotCount(teams', Services) /\ cache' = NoMarks
    /\ conn' = [conn EXCEPT ![main] = "ok"]
    /\ UNCHANGED <<game, scoreVars, resizing, workVars, dbVars, histVars, lines, crashes,
                   exits>>

\* A signal, or Redis breaking off before it has answered.
Exit ==
    /\ exits < MaxExits /\ exits' = exits + 1
    /\ Die
    /\ UNCHANGED <<game, scoreVars, teams, size, cache, dbVars, histVars, lines, crashes>>

(***************************************************************************)
(* The game.  on_end_tick hands the tick to a thread of its own, which     *)
(* scores the rows of exactly this tick.                                   *)
(***************************************************************************)
Score(t) ==
    /\ t \in due /\ dbUp
    /\ due' = due \ {t}
    /\ scored' = scored \cup {rows[i].sub : i \in {j \in 1..Len(rows) : rows[j].tick = t}}

Game ==
    /\ \/ StartGame /\ UNCHANGED <<view, scoreVars>>
       \/ /\ NextTick \/ Halt
          /\ due' = due \cup {game.round} /\ UNCHANGED <<view, scored>>
       \/ (\E t \in due : Score(t)) /\ UNCHANGED <<game, view>>
       \/ (resizing = "no" /\ (LearnState \/ LearnRound)) /\ UNCHANGED <<game, scoreVars>>
    /\ UNCHANGED <<alive, memVars, workVars, dbVars, histVars, conn, lines, crashes,
                   exits>>

(***************************************************************************)
(* A worker takes a line.  The checks read the view and max_team_id, not   *)
(* necessarily the ones the INSERT will see.  A line that is refused, and  *)
(* a test flag, which is answered from the view, leave nothing behind and  *)
(* have no step.                                                           *)
(***************************************************************************)
Refused(s) ==
    \/ view.state # "RUNNING"
    \/ s.by \notin 1..teams \/ s.team > teams \/ s.service > Services
    \/ s.team = NopTeam \/ s.by = NopTeam \/ s.team = s.by
    \/ s.round > TestRound
    \/ s.round + RoundsValid < view.round
    \/ ~s.mac

Check(w, s) ==
    /\ alive /\ pc[w] = "idle"
    /\ s.service < TestService /\ ~Refused(s)
    /\ pc' = [pc EXCEPT ![w] = "cache"] /\ job' = [job EXCEPT ![w] = s]
    /\ slot' = [slot EXCEPT ![w] = IF Covered(teams, Services, s)
                                   THEN Slot(teams, Services, s) ELSE NoVal]
    /\ UNCHANGED <<tick, conn, rows, cache, oks, tried, old>>

Answered(w) ==
    /\ pc' = [pc EXCEPT ![w] = "idle"] /\ job' = [job EXCEPT ![w] = NoVal]
    /\ slot' = [slot EXCEPT ![w] = NoVal] /\ tick' = [tick EXCEPT ![w] = NoVal]

AnswerOld(w) == Answered(w) /\ old' = old \cup {job[w]}

\* The rest of checkFlag: exchange() on the array of this moment.  An index
\* beyond its end meets memory of which nothing is known.
AskCache(w) ==
    /\ pc[w] = "cache"
    /\ LET i == slot[w]
           k == Key(job[w])
       IN  /\ cache' = IF i \in 0..size - 1 THEN Marked(cache, i, k) ELSE cache
           /\ \E hit \in CASE i = NoVal -> {FALSE}
                           [] i \in 0..size - 1 -> {Holds(cache, i, k)}
                           [] OTHER -> BOOLEAN :
                IF hit
                THEN AnswerOld(w) /\ UNCHANGED tried
                ELSE /\ pc' = [pc EXCEPT ![w] = "insert"]
                     /\ tried' = tried \cup {job[w]}
                     /\ UNCHANGED <<job, slot, tick, old>>
    /\ UNCHANGED <<conn, rows, oks>>

\* insertFlag connects or resets the connection if it knows that it has to, then
\* reads the round.  "[ERR] Internal error (database)" if there is no database.
Prepare(w) ==
    /\ pc[w] = "insert"
    /\ \/ /\ conn[w] # "none" \/ dbUp
          /\ conn' = [conn EXCEPT ![w] = IF @ = "none" THEN "ok" ELSE @]
          /\ tick' = [tick EXCEPT ![w] = view.round]
          /\ pc' = [pc EXCEPT ![w] = "exec"]
          /\ UNCHANGED <<job, slot>>
       \/ conn[w] = "none" /\ ~dbUp /\ Answered(w) /\ UNCHANGED conn
    /\ UNCHANGED <<rows, cache, oks, tried, old>>

Noticed(w) == conn' = [conn EXCEPT ![w] = IF @ = "bad" THEN "none" ELSE @]

\* Mutant: nobody asks how many rows were inserted.
InsertBlind(w) ==
    /\ pc[w] = "exec"
    /\ Noticed(w)
    /\ \/ Answered(w) /\ UNCHANGED rows
       \/ /\ conn[w] = "ok"
          /\ rows' = IF Stored(job[w]) THEN rows
                     ELSE Append(rows, [sub |-> job[w], tick |-> tick[w]])
          /\ pc' = [pc EXCEPT ![w] = "result"]
          /\ UNCHANGED <<job, slot, tick>>
    /\ UNCHANGED <<cache, oks, tried, old>>

\* INSERT ... ON CONFLICT DO NOTHING, which may fail on a healthy connection too.
Insert(w) ==
    /\ pc[w] = "exec"
    /\ Noticed(w)
    /\ \/ Answered(w) /\ UNCHANGED <<rows, old>>
       \/ conn[w] = "ok" /\ Stored(job[w]) /\ AnswerOld(w) /\ UNCHANGED rows
       \/ /\ conn[w] = "ok" /\ ~Stored(job[w])
          /\ rows' = Append(rows, [sub |-> job[w], tick |-> tick[w]])
          /\ pc' = [pc EXCEPT ![w] = "result"]
          /\ UNCHANGED <<job, slot, tick, old>>
    /\ UNCHANGED <<cache, oks, tried>>

\* The result of a commit arrives, unless the connection broke before.
Result(w) ==
    /\ pc[w] = "result"
    /\ oks' = IF conn[w] = "ok" THEN [oks EXCEPT ![job[w]] = @ + 1] ELSE oks
    /\ Answered(w) /\ Noticed(w)
    /\ UNCHANGED <<rows, cache, tried, old>>

WorkerStep(w) ==
    /\ AskCache(w) \/ Prepare(w) \/ Insert(w) \/ Result(w)
    /\ UNCHANGED <<viewVars, scoreVars, teams, size, resizing, dbTeams, dbUp,
                   synced, losses, resized, lines, crashes, exits>>

TakeLine(w) ==
    /\ lines < MaxLines /\ lines' = lines + 1
    /\ \E s \in Submissions : Check(w, s)
    /\ UNCHANGED <<viewVars, scoreVars, teams, size, resizing, dbTeams, dbUp,
                   synced, losses, resized, crashes, exits>>

(***************************************************************************)
(* checkDatabase, on the main thread, once a minute.  The query throws on  *)
(* a broken connection, which nobody resets.                               *)
(***************************************************************************)
\* Mutant: the exception is logged.
CheckDatabaseLogs ==
    /\ alive /\ resizing = "no" /\ conn[main] = "ok" /\ dbTeams + 1 > teams
    /\ teams' = dbTeams + 1 /\ resizing' = "counts" /\ resized' = TRUE
    /\ UNCHANGED <<alive, view, workVars, conn, game, scoreVars, size, cache, dbVars,
                   oks, losses, tried, old, lines, crashes, exits>>

CheckDatabase ==
    /\ alive /\ resizing = "no"
    /\ LET wanted == Larger(teams, dbTeams + 1) IN
       \/ conn[main] = "bad" /\ Die /\ UNCHANGED <<teams, resized>>
       \/ /\ conn[main] = "ok" /\ wanted > teams
          /\ teams' = wanted /\ resizing' = "counts" /\ resized' = TRUE
          /\ UNCHANGED <<alive, view, workVars, conn>>
    /\ UNCHANGED <<game, scoreVars, size, cache, dbVars, oks, losses, tried, old,
                   lines, crashes, exits>>

\* resize(): the array replaced, then cleared, while workers use it.
NewArray ==
    /\ resizing = "counts"
    /\ size' = SlotCount(teams, Services) /\ cache' = NoMarks /\ resizing' = "array"
ClearArray ==
    /\ resizing = "array"
    /\ cache' = NoMarks /\ resizing' = "no" /\ UNCHANGED size
Resize ==
    /\ NewArray \/ ClearArray
    /\ UNCHANGED <<viewVars, scoreVars, teams, workVars, dbVars, histVars, conn, lines,
                   crashes, exits>>

(***************************************************************************)
(* The database.  The last commits before a crash may be lost, how many    *)
(* nobody knows; what was there after a recovery is on disk.               *)
(***************************************************************************)
Crash ==
    /\ dbUp /\ crashes < MaxCrashes
    /\ crashes' = crashes + 1 /\ dbUp' = FALSE
    /\ \E n \in synced..Len(rows) :
         /\ rows' = SubSeq(rows, 1, n)
         /\ losses' = [s \in Submissions |-> losses[s] +
                         Cardinality({i \in n + 1..Len(rows) : rows[i].sub = s})]
    /\ conn' = [t \in Threads |-> IF conn[t] = "ok" THEN "bad" ELSE conn[t]]
    /\ UNCHANGED <<dbTeams, synced>>

Recover == ~dbUp /\ dbUp' = TRUE /\ synced' = Len(rows)
           /\ UNCHANGED <<dbTeams, rows, losses, conn, crashes>>

AddTeams ==
    /\ dbUp /\ \E n \in TeamCounts : n > dbTeams /\ dbTeams' = n
    /\ UNCHANGED <<dbUp, rows, synced, losses, conn, crashes>>

Database ==
    /\ Crash \/ Recover \/ AddTeams
    /\ UNCHANGED <<viewVars, scoreVars, memVars, workVars, oks, tried, old, resized, lines,
                   exits>>

Next ==
    \/ Start \/ Exit
    \/ Game
    \/ \E w \in Workers : TakeLine(w) \/ WorkerStep(w)
    \/ CheckDatabase \/ Resize
    \/ Database

Spec == Init /\ [][Next]_vars

(***************************************************************************)
(* Fairness: threads go on, the restart policy restarts, the timer of main *)
(* comes round, the database is brought back.  Nothing makes a client      *)
(* submit, the game go on, or a fault happen.                              *)
(***************************************************************************)
FairSpec ==
    /\ Spec
    /\ WF_vars(Start) /\ WF_vars(CheckDatabase) /\ WF_vars(Resize)
    /\ WF_vars(Recover /\ Database)
    /\ \A w \in Workers : WF_vars(WorkerStep(w))

-----------------------------------------------------------------------------
(* Properties *)

TypeOK ==
    /\ due \subseteq 1..MaxRound /\ scored \subseteq Submissions
    /\ view.round \in -1..MaxRound
    /\ \A w \in Workers :
         /\ pc[w] \in {"idle", "cache", "insert", "exec", "result"}
         /\ job[w] = NoVal <=> pc[w] = "idle"
         /\ tick[w] = NoVal <=> pc[w] \notin {"exec", "result"}
    /\ synced \in 0..Len(rows)
    /\ \A t \in Threads : conn[t] = "ok" => dbUp
    /\ ~alive => \A t \in Threads : conn[t] = "none"

\* Nobody is told [OK] twice for one row, or without one: submissions race on
\* both sides of the cache, the process dies and loses its cache, connections
\* break between a commit and its result.  Only a crash of the database, which
\* commits asynchronously, takes back what was acknowledged (progress_flag,
\* insertFlag).
AcknowledgedOnce ==
    \A s \in Submissions :
        oks[s] <= Cardinality({i \in 1..Len(rows) : rows[i].sub = s}) + losses[s]

\* "Already submitted" is told only of a submission that once got past the cache:
\* no two submissions share a slot and a key (checkFlag).  A resize breaks this,
\* see FreshIsNotOld.
OldWasTried == old \subseteq tried \/ resized

\* Except while an array is being replaced, an index computed for the cache is one
\* of the array it is used on (checkFlag, resize).
SlotInArray ==
    \A w \in Workers : pc[w] = "cache" /\ slot[w] # NoVal /\ resizing = "no"
                          => slot[w] \in 0..size - 1

\* Crashes of the database bring the server down, at the next look for new
\* teams, and yet it comes back for good, and the lines clients still wait for are
\* answered or cut off (checkDatabase, main, the restart policy).
ServerRecovers == <>[](alive /\ conn[main] = "ok" /\ \A w \in Workers : pc[w] = "idle")

-----------------------------------------------------------------------------
(* What the documents promise and the code does not keep. *)

\* flagcache.cpp: false is "definitive not new".  Yet an INSERT that fails leaves the
\* cache as it is: a flag no thread has in hand, answered as old and stored nowhere.
OldIsStored ==
    \A s \in old : Stored(s) \/ losses[s] > 0 \/ \E w \in Workers : job[w] = s

\* Nor is it so for a flag that never got past the cache: a resize moves the slots
\* under a worker that has computed its index (resize, checkFlag).
FreshIsNotOld == old \subseteq tried

\* The README: "valid flag submissions always add positive points".  Every row of
\* a tick whose scoring has run was counted; ticks below 1 are never scored.
Over(t) == t < game.round \/ (t = game.round /\ game.state # "RUNNING")
StoredIsScored ==
    \A i \in 1..Len(rows) :
        Over(rows[i].tick) /\ rows[i].tick \notin due => rows[i].sub \in scored

\* flagchecker.cpp: issued + valid rounds "is the last round a flag is valid".
StoredWhileValid ==
    \A i \in 1..Len(rows) : rows[i].tick <= rows[i].sub.round + RoundsValid
=============================================================================
