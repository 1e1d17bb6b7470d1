---------------------------- MODULE ConfigStore ----------------------------
(***************************************************************************)
(* The configuration file and its two secrets, the MQTT password and the   *)
(* provision token, over the starts, crashes, reloads and updates of the   *)
(* agent (main.go, config.go, secrets.go, commands.go).  processConfig     *)
(* turns every secret it is given: a plain one is sealed, a sealed one is  *)
(* opened, and if one was plain the result is written over the file.  The  *)
(* start does it in memory's cfg, SIGHUP and update_config in a draft.     *)
(*                                                                         *)
(* os.WriteFile is two steps, truncation and writing; a crash leaves what  *)
(* is between them.  Abstracted: the rest of the configuration, and the    *)
(* text of a secret, which has a value and, if sealed, the key it is       *)
(* sealed with.  External: systemd, which restarts the agent; the broker,  *)
(* which accepts the password that was configured last; and the operator,  *)
(* who edits the file.  --config names configPath(), as in setup.sh.       *)
(***************************************************************************)
EXTENDS Naturals

CONSTANTS
    Values,       \* what a secret may be configured to
    MaxKeys,      \* bound: keys generated
    MaxEdits,     \* bound: edits of the operator
    MaxFaults     \* bound: crashes, failed reads and failed writes

ASSUME StoreAssumption ==
    /\ MaxKeys \in Nat /\ MaxEdits \in Nat /\ MaxFaults \in Nat
    /\ "none" \notin Values

VARIABLES
    file,       \* config.yml
    keyFile,    \* .encryption_key: NoKey if there is none
    main,       \* where main is
    key,        \* sm.key: NoKey for no secretsManager
    cfg,        \* the global cfg
    at,         \* where each writer of the file is
    draft,      \* the configuration it is about to write
    left,       \* the writes it has still to make
    keys,       \* keys generated
    edits, faults,
    wanted,     \* history: what each secret was last configured to
    spoilt      \* history: a write was cut, failed, or met another change, or
                \* the key was there and could not be read

procVars == <<main, key, cfg>>
jobVars  == <<at, draft, left>>
diskVars == <<file, keyFile, keys>>
histVars == <<wanted, spoilt>>
vars == <<procVars, jobVars, diskVars, histVars, edits, faults>>

Secrets == {"password", "token"}
Writers == {"start", "reload", "update"}

NoKey == 0
Short == MaxKeys + 1     \* the key of a file that was cut short

Absent == [val |-> "none", key |-> 0]
Forms  == [val : Values, key : 0..MaxKeys] \cup {Absent}

Blank == [s \in Secrets |-> Absent]

Contents == [state : {"whole", "empty", "garbled"}, has : [Secrets -> Forms]]

\* The files, the memory and the jobs have the forms the code gives them.
TypeOK ==
    /\ file \in Contents
    /\ keyFile \in 0..Short
    /\ main \in {"down", "key", "create", "fill", "process", "store", "connect", "run"}
    /\ key \in 0..Short
    /\ cfg \in Contents
    /\ at \in [Writers -> {"idle", "process", "open", "write"}]
    /\ draft \in [Writers -> [Secrets -> Forms]]
    /\ left \in [Writers -> 0..2]
    /\ keys \in 0..MaxKeys
    /\ edits \in 0..MaxEdits /\ faults \in 0..MaxFaults
    /\ wanted \in [Secrets -> Values \cup {"none"}]
    /\ spoilt \in BOOLEAN

\* A fresh installation: the secrets are as setup.sh has written them.
Init ==
    /\ \E c \in [Secrets -> Values \cup {"none"}] :
         /\ wanted = c
         /\ file = [state |-> "whole", has |-> [s \in Secrets |-> [val |-> c[s], key |-> 0]]]
    /\ keyFile = NoKey /\ keys = 0
    /\ main = "down" /\ key = NoKey
    /\ cfg = [state |-> "empty", has |-> Blank]
    /\ at = [w \in Writers |-> "idle"]
    /\ draft = [w \in Writers |-> Blank]
    /\ left = [w \in Writers |-> 0]
    /\ edits = 0 /\ faults = 0
    /\ spoilt = FALSE

Calm == \A w \in Writers : at[w] = "idle"

-----------------------------------------------------------------------------
(* processConfig *)

IsPlain(f)  == f.val # "none" /\ f.key = 0
IsSealed(f) == f.key # 0

\* encrypt and decrypt: a short key serves neither, and a sealed secret opens
\* with its own key only.
Fails(f, k) == (IsPlain(f) \/ IsSealed(f)) /\ (k = Short \/ (IsSealed(f) /\ f.key # k))

\* Mutant: a secret that is not configured is sealed like any other.
Turned_Empty(f, k) == IF f.key = 0 THEN [f EXCEPT !.key = k] ELSE [f EXCEPT !.key = 0]

Turned(f, k) == IF IsPlain(f) THEN [f EXCEPT !.key = k] ELSE [f EXCEPT !.key = 0]

\* Mutant: a secret that was sealed does not make the file be rewritten.
Process_NoRewrite(c, k) ==
    IF k = NoKey \/ \E s \in Secrets : Fails(c[s], k)
    THEN [has |-> c, ok |-> k = NoKey, rewrite |-> FALSE]
    ELSE [has |-> [s \in Secrets |-> Turned(c[s], k)], ok |-> TRUE, rewrite |-> FALSE]

\* Mutant: what was opened is written back like what was sealed.
Process_AlwaysWrites(c, k) ==
    IF k = NoKey \/ \E s \in Secrets : Fails(c[s], k)
    THEN [has |-> c, ok |-> k = NoKey, rewrite |-> FALSE]
    ELSE [has |-> [s \in Secrets |-> Turned(c[s], k)], ok |-> TRUE, rewrite |-> TRUE]

\* The password comes first: when only the token fails it has been turned.
Process(c, k) ==
    LET Result(has, ok, rewrite) == [has |-> has, ok |-> ok, rewrite |-> rewrite] IN
    IF k = NoKey THEN Result(c, TRUE, FALSE)
    ELSE IF Fails(c["password"], k) THEN Result(c, FALSE, FALSE)
    ELSE IF Fails(c["token"], k)
         THEN Result([c EXCEPT !["password"] = Turned(@, k)], FALSE, FALSE)
    ELSE Result([s \in Secrets |-> Turned(c[s], k)], TRUE, \E s \in Secrets : IsPlain(c[s]))

-----------------------------------------------------------------------------
(* The start of the process *)

\* systemd starts the agent and main reads the file; what does not parse is
\* fatal, and an empty file parses.
Start ==
    /\ main = "down"
    /\ file.state # "garbled"
    /\ main' = "key"
    /\ cfg' = IF file.state = "whole" THEN file ELSE [state |-> "empty", has |-> Blank]
    /\ UNCHANGED <<key, jobVars, diskVars, histVars, edits, faults>>

\* newSecretsManager: the key is read or, when that fails, generated, whether
\* there is no file or one that could not be read, whose key is then given up ...
ReadKey ==
    /\ main = "key"
    /\ \/ /\ keyFile # NoKey
          /\ key' = keyFile
          /\ main' = "process"
          /\ UNCHANGED <<keys, spoilt, faults>>
       \/ /\ keyFile = NoKey \/ faults < MaxFaults
          /\ keys < MaxKeys
          /\ keys' = keys + 1
          /\ key' = keys + 1
          /\ main' = "create"
          /\ spoilt' = (spoilt \/ keyFile # NoKey)
          /\ faults' = IF keyFile = NoKey THEN faults ELSE faults + 1
    /\ UNCHANGED <<cfg, jobVars, file, keyFile, wanted, edits>>

\* Mutant: the key is used before its file is written.
CreateKey_Later ==
    /\ main = "create"
    /\ main' = "process"
    /\ UNCHANGED <<key, cfg, jobVars, diskVars, histVars, edits, faults>>

\* ... and written; without a file to keep it in there is no secretsManager.
CreateKey ==
    /\ main = "create"
    /\ \/ /\ main' = "fill"
          /\ keyFile' = Short
          /\ UNCHANGED <<key, faults>>
       \/ /\ faults < MaxFaults
          /\ faults' = faults + 1
          /\ main' = "process"
          /\ key' = NoKey
          /\ UNCHANGED keyFile
    /\ UNCHANGED <<cfg, jobVars, file, keys, histVars, edits>>

FillKey ==
    /\ main = "fill"
    /\ main' = "process"
    /\ \/ keyFile' = key /\ UNCHANGED <<key, faults>>
       \/ /\ faults < MaxFaults
          /\ faults' = faults + 1
          /\ key' = NoKey
          /\ UNCHANGED keyFile
    /\ UNCHANGED <<cfg, jobVars, file, keys, histVars, edits>>

\* processConfig on the global cfg; an error is a warning.
ProcessStart ==
    /\ main = "process"
    /\ LET r == Process(cfg.has, key) IN
         /\ cfg' = [cfg EXCEPT !.has = r.has]
         /\ IF r.ok /\ r.rewrite
            THEN /\ main' = "store"
                 /\ at' = [at EXCEPT !["start"] = "open"]
                 /\ draft' = [draft EXCEPT !["start"] = r.has]
                 /\ left' = [left EXCEPT !["start"] = 1]
            ELSE main' = "connect" /\ UNCHANGED jobVars
    /\ UNCHANGED <<key, diskVars, histVars, edits, faults>>

\* mqttConnect: the broker accepts the password as it was configured, and any
\* other makes the connection time out, which is fatal.
Connect ==
    /\ main = "connect"
    /\ main' = IF cfg.state = "whole" /\ cfg.has["password"] = [val |-> wanted["password"], key |-> 0]
               THEN "run" ELSE "down"
    /\ UNCHANGED <<key, cfg, jobVars, diskVars, histVars, edits, faults>>

-----------------------------------------------------------------------------
(* SIGHUP and update_config *)

\* The reloader reads the file, whatever is in it.
ReloadReads ==
    /\ main = "run"
    /\ at["reload"] = "idle"
    /\ file.state # "garbled"
    /\ at' = [at EXCEPT !["reload"] = "process"]
    /\ draft' = [draft EXCEPT !["reload"] = IF file.state = "whole" THEN file.has ELSE Blank]
    /\ spoilt' = (spoilt \/ at["update"] # "idle")
    /\ UNCHANGED <<procVars, left, diskVars, wanted, edits, faults>>

\* The draft replaces cfg, at once or after it has been written.
ReloadProcesses ==
    /\ at["reload"] = "process"
    /\ LET r == Process(draft["reload"], key) IN
       IF r.ok /\ r.rewrite
       THEN /\ at' = [at EXCEPT !["reload"] = "open"]
            /\ draft' = [draft EXCEPT !["reload"] = r.has]
            /\ left' = [left EXCEPT !["reload"] = 1]
            /\ UNCHANGED cfg
       ELSE /\ at' = [at EXCEPT !["reload"] = "idle"]
            /\ draft' = [draft EXCEPT !["reload"] = Blank]
            /\ cfg' = IF r.ok THEN [state |-> "whole", has |-> r.has] ELSE cfg
            /\ UNCHANGED left
    /\ UNCHANGED <<main, key, diskVars, histVars, edits, faults>>

\* An update_config command, with plain secrets or without them.
UpdateArrives(c) ==
    /\ main = "run"
    /\ at["update"] = "idle"
    /\ at' = [at EXCEPT !["update"] = "process"]
    /\ draft' = [draft EXCEPT !["update"] = [s \in Secrets |-> [val |-> c[s], key |-> 0]]]
    /\ spoilt' = (spoilt \/ at["reload"] # "idle")
    /\ UNCHANGED <<procVars, left, diskVars, wanted, edits, faults>>

\* processConfig writes the file if it sealed a secret; the command then writes
\* it once more.
UpdateProcesses ==
    /\ at["update"] = "process"
    /\ LET r == Process(draft["update"], key) IN
       IF r.ok
       THEN /\ at' = [at EXCEPT !["update"] = "open"]
            /\ draft' = [draft EXCEPT !["update"] = r.has]
            /\ left' = [left EXCEPT !["update"] = IF r.rewrite THEN 2 ELSE 1]
       ELSE /\ at' = [at EXCEPT !["update"] = "idle"]
            /\ draft' = [draft EXCEPT !["update"] = Blank]
            /\ UNCHANGED left
    /\ UNCHANGED <<procVars, diskVars, histVars, edits, faults>>

-----------------------------------------------------------------------------
(* os.WriteFile(configPath(), ...) *)

Truncate(w) ==
    /\ at[w] = "open"
    /\ file' = [file EXCEPT !.state = "empty"]
    /\ at' = [at EXCEPT ![w] = "write"]
    /\ UNCHANGED <<procVars, draft, left, keyFile, keys, histVars, edits, faults>>

\* What follows the last write of w: main goes on, the reloader installs its
\* draft, and the command is answered.
Resumes(w) ==
    /\ main' = IF w = "start" THEN "connect" ELSE main
    /\ cfg' = IF w = "reload" THEN [state |-> "whole", has |-> draft[w]] ELSE cfg

\* The text is written from the beginning of the file.  On what another writer
\* has put there meanwhile it may leave the tail of a longer text.
Write(w) ==
    /\ at[w] = "write"
    /\ LET new == [state |-> "whole", has |-> draft[w]] IN
       file' \in IF file.state = "empty" THEN {new} ELSE {new, [new EXCEPT !.state = "garbled"]}
    /\ wanted' = IF w = "update" THEN [s \in Secrets |-> draft[w][s].val] ELSE wanted
    /\ left' = [left EXCEPT ![w] = @ - 1]
    /\ IF left[w] = 1
       THEN /\ at' = [at EXCEPT ![w] = "idle"]
            /\ draft' = [draft EXCEPT ![w] = Blank]
            /\ Resumes(w)
       ELSE at' = [at EXCEPT ![w] = "open"] /\ UNCHANGED <<draft, main, cfg>>
    /\ UNCHANGED <<key, keyFile, keys, spoilt, edits, faults>>

\* The file cannot be opened, or the disk is full: the error is logged, and only
\* main goes on.
WriteFails(w) ==
    /\ at[w] \in {"open", "write"}
    /\ faults < MaxFaults
    /\ faults' = faults + 1
    /\ at' = [at EXCEPT ![w] = "idle"]
    /\ draft' = [draft EXCEPT ![w] = Blank]
    /\ left' = [left EXCEPT ![w] = 0]
    /\ main' = IF w = "start" THEN "connect" ELSE main
    /\ spoilt' = (spoilt \/ at[w] = "write")
    /\ UNCHANGED <<key, cfg, diskVars, wanted, edits>>

-----------------------------------------------------------------------------
(* The environment *)

\* The process ends where it is: a crash, a restart_agent, a signal.
Crash ==
    /\ main # "down"
    /\ faults < MaxFaults
    /\ faults' = faults + 1
    /\ main' = "down"
    /\ key' = NoKey
    /\ cfg' = [state |-> "empty", has |-> Blank]
    /\ at' = [w \in Writers |-> "idle"]
    /\ draft' = [w \in Writers |-> Blank]
    /\ left' = [w \in Writers |-> 0]
    /\ spoilt' = (spoilt \/ \E w \in Writers : at[w] = "write")
    /\ UNCHANGED <<diskVars, wanted, edits>>

\* The operator sets one secret, and the broker to it.
Edit(s, v) ==
    /\ edits < MaxEdits
    /\ edits' = edits + 1
    /\ file.state = "whole"
    /\ file' = [file EXCEPT !.has[s] = [val |-> v, key |-> 0]]
    /\ wanted' = [wanted EXCEPT ![s] = v]
    /\ spoilt' = (spoilt \/ ~Calm \/ main \in {"key", "create", "fill", "process"})
    /\ UNCHANGED <<procVars, jobVars, keyFile, keys, faults>>

MainStep == Start \/ ReadKey \/ CreateKey \/ FillKey \/ ProcessStart \/ Connect

JobStep == \/ ReloadProcesses \/ UpdateProcesses
           \/ \E w \in Writers : Truncate(w) \/ Write(w) \/ WriteFails(w)

Next ==
    \/ MainStep \/ JobStep
    \/ ReloadReads
    \/ \E c \in [Secrets -> Values \cup {"none"}] : UpdateArrives(c)
    \/ Crash
    \/ \E s \in Secrets : \E v \in Values : Edit(s, v)

Spec == Init /\ [][Next]_vars

\* systemd restarts the agent, and its goroutines run.
Fairness == WF_vars(MainStep) /\ WF_vars(JobStep)

FairSpec == Spec /\ Fairness

-----------------------------------------------------------------------------
(* Properties *)

\* Whatever it crashes in, the agent does not lose a secret: the file holds each
\* as it was last configured, plain or sealed with the key that is in the key
\* file.  The exceptions are a write of the file that was cut short or failed,
\* a change of the file that met another one, and a key that could not be read.
SecretsAreKept ==
    ~spoilt =>
        /\ file.state = "whole" \/ \E w \in Writers : at[w] = "write"
        /\ file.state = "whole" => \A s \in Secrets :
             /\ file.has[s].val = wanted[s]
             /\ file.has[s].key \in {0, keyFile}

\* A start finds every secret that is sealed in its file openable, whatever the
\* process before it ended in: newSecretsManager has the key it was sealed with,
\* and no secret that comes first keeps processConfig from it.
SealedIsOpened ==
    [][\A s \in Secrets :
         ProcessStart /\ ~spoilt /\ IsSealed(cfg.has[s])
            => cfg'.has[s] = [val |-> wanted[s], key |-> 0]]_vars

\* A gateway gets connected, although a start that seals its password then uses
\* the sealed form and fails: one of the starts that follow opens it.
GetsConnected == (main = "down" /\ ~spoilt) ~> (main = "run" \/ spoilt)

\* A write does not turn every secret into plain text, as long as there is a key.
\* It may turn one: processConfig opens what is sealed when it seals the other,
\* so that a file with one plain secret and one sealed swaps them at each start.
NeverAllPlain ==
    [][\A w \in Writers :
         Write(w) /\ key # NoKey /\ (\E s \in Secrets : IsPlain(draft[w][s]))
            => \E s \in Secrets : IsSealed(draft[w][s])]_vars
=============================================================================
