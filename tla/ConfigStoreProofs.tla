------------------------- MODULE ConfigStoreProofs -------------------------
(***************************************************************************)
(* Proofs about ConfigStore, for any set of values and any number of       *)
(* edits, crashes and failed writes: the agent keeps its secrets, and each *)
(* start opens the sealed ones.                                            *)
(*                                                                         *)
(* The file is good because what is written to it is: a draft holds the    *)
(* secrets as they were configured, sealed with the key that is already in *)
(* the key file (Drafts), main's cfg does until it has been processed      *)
(* (Loaded), and as long as nothing is spoilt there is one writer at most  *)
(* and the file is empty only in its hands (OneWriter, Emptied).  That a   *)
(* sealed secret's key is that of the file rests on the key's own life     *)
(* (KeyInv): nothing is sealed before the key file is complete, and a      *)
(* process without a key is one whose file holds none, unless the key was  *)
(* there and could not be read, which counts as spoilt.  That no write     *)
(* leaves all plain rests on what the writers have in hand (SealInv): main *)
(* and the reloader write only what they sealed a secret of.               *)
(***************************************************************************)
EXTENDS ConfigStore, TLAPS

KeyInv ==
    /\ main = "create" => (keyFile = NoKey \/ spoilt) /\ key \in 1..MaxKeys
    /\ main = "fill" => keyFile = Short /\ key \in 1..MaxKeys
    /\ main \in {"process", "store", "connect", "run"} =>
         key = keyFile \/ (key = NoKey /\ (keyFile \in {NoKey, Short} \/ spoilt))

JobInv ==
    /\ at["start"] # "idle" => main = "store"
    /\ \A w \in {"reload", "update"} : at[w] # "idle" => main = "run"
    /\ \A w \in Writers : at[w] \in {"open", "write"} => left[w] \in {1, 2}
    /\ at["start"] # "process"

\* A configuration that could be written to the file as it is.
Proper(c) == \A s \in Secrets : c[s].val = wanted[s] /\ c[s].key \in {0, keyFile}

OneWriter == \A v, w \in Writers : at[v] # "idle" /\ at[w] # "idle" => v = w

Emptied == \A w \in Writers : at[w] = "write" => file.state = "empty"

Loaded == main \in {"key", "create", "fill", "process"} => Proper(cfg.has)

Drafts ==
    /\ \A w \in {"start", "reload"} : at[w] # "idle" => Proper(draft[w])
    /\ at["update"] # "idle" => \A s \in Secrets : draft["update"][s].key \in {0, keyFile}

FileIsGood ==
    /\ file.state = "whole" \/ \E w \in Writers : at[w] = "write"
    /\ file.state = "whole" => Proper(file.has)

Clean == OneWriter /\ Emptied /\ Loaded /\ Drafts /\ FileIsGood

\* A configuration that is not all plain, unless it has no secret.
SealsSome(c) == (\E s \in Secrets : IsPlain(c[s])) => \E s \in Secrets : IsSealed(c[s])

\* A command comes with nothing sealed, and what is about to be written is not
\* all plain.
SealInv ==
    /\ at["update"] = "process" => \A s \in Secrets : draft["update"][s].key = 0
    /\ \A w \in Writers : at[w] \in {"open", "write"} /\ key # NoKey => SealsSome(draft[w])

StoreInv == TypeOK /\ KeyInv /\ JobInv /\ (~spoilt => Clean)

-----------------------------------------------------------------------------
(* What processConfig does to a configuration *)

LEMMA TurnedForm ==
    ASSUME NEW f \in Forms, NEW k \in 0..Short, k # NoKey, ~Fails(f, k)
    PROVE  /\ Turned(f, k) \in Forms
           /\ Turned(f, k).val = f.val
           /\ Turned(f, k).key \in {0, k}
<1>1. CASE IsPlain(f)
  <2>1. f \in [val : Values, key : 0..MaxKeys] /\ k \in 0..MaxKeys
    BY <1>1, StoreAssumption DEF Forms, Absent, IsPlain, Fails, Short, NoKey
  <2>2. Turned(f, k) = [val |-> f.val, key |-> k]
    BY <1>1, <2>1 DEF Turned
  <2> QED BY <2>1, <2>2 DEF Forms
<1>2. CASE IsSealed(f)
  <2>1. f \in [val : Values, key : 0..MaxKeys] /\ 0 \in 0..MaxKeys
    BY <1>2, StoreAssumption DEF Forms, Absent, IsSealed
  <2>2. Turned(f, k) = [val |-> f.val, key |-> 0]
    BY <1>2, <2>1 DEF Turned, IsPlain, IsSealed
  <2> QED BY <2>1, <2>2 DEF Forms
<1>3. CASE ~IsPlain(f) /\ ~IsSealed(f)
  <2>1. f = Absent
    BY <1>3, StoreAssumption DEF Forms, Absent, IsPlain, IsSealed
  <2>2. Turned(f, k) = [val |-> "none", key |-> 0]
    BY <1>3, <2>1 DEF Turned, Absent
  <2> QED BY <2>1, <2>2 DEF Forms, Absent
<1> QED BY <1>1, <1>2, <1>3

\* processConfig keeps every value, and seals with the given key only.
LEMMA ProcessForms ==
    ASSUME NEW c \in [Secrets -> Forms], NEW k \in 0..Short
    PROVE  /\ Process(c, k).has \in [Secrets -> Forms]
           /\ \A s \in Secrets : /\ Process(c, k).has[s].val = c[s].val
                                 /\ Process(c, k).has[s].key \in {0, k, c[s].key}
<1>1. CASE k = NoKey \/ Fails(c["password"], k)
  BY <1>1 DEF Process
<1>2. CASE k # NoKey /\ ~Fails(c["password"], k) /\ Fails(c["token"], k)
  <2>1. Process(c, k).has = [c EXCEPT !["password"] = Turned(@, k)]
    BY <1>2 DEF Process
  <2>2. "password" \in Secrets /\ c["password"] \in Forms
    BY DEF Secrets
  <2>3. /\ Turned(c["password"], k) \in Forms
        /\ Turned(c["password"], k).val = c["password"].val
        /\ Turned(c["password"], k).key \in {0, k}
    BY <1>2, <2>2, TurnedForm
  <2> QED BY <2>1, <2>2, <2>3
<1>3. CASE k # NoKey /\ ~Fails(c["password"], k) /\ ~Fails(c["token"], k)
  <2>1. Process(c, k).has = [s \in Secrets |-> Turned(c[s], k)]
    BY <1>3 DEF Process
  <2>2. ASSUME NEW s \in Secrets
        PROVE  /\ Turned(c[s], k) \in Forms
               /\ Turned(c[s], k).val = c[s].val
               /\ Turned(c[s], k).key \in {0, k}
    BY <1>3, TurnedForm DEF Secrets
  <2> QED BY <2>1, <2>2
<1> QED BY <1>1, <1>2, <1>3

\* A result that is written has a sealed secret, unless there is none at all or
\* there was a sealed one to open and none to seal.
LEMMA ProcessSeals ==
    ASSUME NEW c \in [Secrets -> Forms], NEW k \in 0..Short, k # NoKey, Process(c, k).ok,
           Process(c, k).rewrite \/ \A s \in Secrets : c[s].key = 0
    PROVE  SealsSome(Process(c, k).has)
<1>1. ~Fails(c["password"], k) /\ ~Fails(c["token"], k)
  BY DEF Process
<1>2. /\ Process(c, k).has = [s \in Secrets |-> Turned(c[s], k)]
      /\ Process(c, k).rewrite = \E s \in Secrets : IsPlain(c[s])
  BY <1>1 DEF Process
<1>3. ASSUME NEW s \in Secrets, IsPlain(c[s]) PROVE IsSealed(Turned(c[s], k))
  <2>1. c[s] \in [val : Values, key : 0..MaxKeys]
    BY <1>3, StoreAssumption DEF Forms, Absent, IsPlain
  <2>2. Turned(c[s], k) = [val |-> c[s].val, key |-> k]
    BY <1>3, <2>1 DEF Turned
  <2> QED BY <2>2 DEF IsSealed, NoKey
<1>4. CASE Process(c, k).rewrite
  BY <1>2, <1>3, <1>4 DEF SealsSome
<1>5. CASE \A s \in Secrets : c[s].key = 0
  <2>1. ASSUME NEW s \in Secrets, IsPlain(Turned(c[s], k)) PROVE IsPlain(c[s])
    <3>1. Turned(c[s], k).val = c[s].val
      BY <1>1, TurnedForm DEF Secrets
    <3> QED BY <1>5, <2>1, <3>1 DEF IsPlain
  <2> QED BY <1>2, <1>3, <2>1 DEF SealsSome
<1> QED BY <1>4, <1>5

-----------------------------------------------------------------------------
LEMMA StoreInit == Init => StoreInv
<1> SUFFICES ASSUME Init PROVE StoreInv
  OBVIOUS
<1>1. PICK c \in [Secrets -> Values \cup {"none"}] :
        /\ wanted = c
        /\ file = [state |-> "whole", has |-> [s \in Secrets |-> [val |-> c[s], key |-> 0]]]
  BY DEF Init
<1>2. \A s \in Secrets : [val |-> c[s], key |-> 0] \in Forms
  BY <1>1, StoreAssumption DEF Forms, Absent
<1>3. file \in Contents
  BY <1>1, <1>2 DEF Contents
<1>4. Blank \in [Secrets -> Forms]
  BY DEF Blank, Forms
<1>5. cfg \in Contents
  BY <1>4 DEF Init, Contents
<1>6. spoilt \in BOOLEAN
  BY Zenon DEF Init
<1>7. TypeOK
  BY <1>1, <1>3, <1>4, <1>5, <1>6, StoreAssumption DEF Init, TypeOK, NoKey, Short
<1>8. KeyInv /\ JobInv
  BY DEF Init, KeyInv, JobInv, Writers
<1>9. Clean
  BY <1>1 DEF Init, Clean, OneWriter, Emptied, Loaded, Drafts, FileIsGood, Proper,
         Writers, Secrets
<1> QED BY <1>7, <1>8, <1>9 DEF StoreInv

-----------------------------------------------------------------------------
(* The forms *)

LEMMA FormFacts ==
    /\ Blank \in [Secrets -> Forms]
    /\ [state |-> "empty", has |-> Blank] \in Contents
    /\ \A c \in [Secrets -> Forms] : [state |-> "whole", has |-> c] \in Contents
    /\ \A c \in Contents : c.has \in [Secrets -> Forms]
    /\ \A f \in Forms : f.key \in 0..MaxKeys /\ f.val \in Values \cup {"none"}
    /\ \A v \in Values \cup {"none"} : [val |-> v, key |-> 0] \in Forms
<1>1. Absent \in Forms /\ 0 \in 0..MaxKeys
  BY StoreAssumption DEF Forms
<1>2. Blank \in [Secrets -> Forms]
  BY <1>1 DEF Blank
<1>3. \A f \in Forms : f.key \in 0..MaxKeys /\ f.val \in Values \cup {"none"}
  BY <1>1 DEF Forms, Absent
<1>4. \A v \in Values \cup {"none"} : [val |-> v, key |-> 0] \in Forms
  BY <1>1 DEF Forms, Absent
<1>5. [state |-> "empty", has |-> Blank] \in Contents
  BY <1>2 DEF Contents
<1> QED BY <1>2, <1>3, <1>4, <1>5 DEF Contents

-----------------------------------------------------------------------------
(* The inductive step, one invariant at a time *)

LEMMA TypeStep == TypeOK /\ JobInv /\ [Next]_vars => TypeOK'
<1> SUFFICES ASSUME TypeOK, JobInv, [Next]_vars PROVE TypeOK'
  OBVIOUS
<1>1. CASE Start
  <2>1. cfg' \in Contents
    BY <1>1, FormFacts DEF Start, TypeOK
  <2> QED BY <1>1, <2>1 DEF Start, procVars, jobVars, diskVars, histVars, TypeOK
<1>2. CASE ReadKey
  <2>1. keys' \in 0..MaxKeys /\ key' \in 0..Short
    BY <1>2, StoreAssumption DEF ReadKey, TypeOK, Short
  <2>2. faults' \in 0..MaxFaults
    BY <1>2, StoreAssumption DEF ReadKey, TypeOK
  <2>3. spoilt' \in BOOLEAN
    BY <1>2, Zenon DEF ReadKey, TypeOK
  <2> QED BY <1>2, <2>1, <2>2, <2>3 DEF ReadKey, jobVars, TypeOK
<1>3. CASE CreateKey
  BY <1>3, StoreAssumption DEF CreateKey, procVars, jobVars, diskVars, histVars,
         TypeOK, NoKey, Short
<1>4. CASE FillKey
  BY <1>4, StoreAssumption DEF FillKey, procVars, jobVars, diskVars, histVars,
         TypeOK, NoKey, Short
<1>5. CASE ProcessStart
  <2>1. Process(cfg.has, key).has \in [Secrets -> Forms]
    BY FormFacts, ProcessForms DEF TypeOK
  <2>2. cfg' \in Contents
    BY <1>5, <2>1 DEF ProcessStart, TypeOK, Contents
  <2>3. draft' \in [Writers -> [Secrets -> Forms]]
    BY <1>5, <2>1 DEF ProcessStart, TypeOK, jobVars
  <2>4. at' \in {at, [at EXCEPT !["start"] = "open"]} /\ left' \in {left, [left EXCEPT !["start"] = 1]}
    BY <1>5 DEF ProcessStart, jobVars
  <2>5. main' \in {"store", "connect"}
    BY <1>5 DEF ProcessStart
  <2>6. at' \in [Writers -> {"idle", "process", "open", "write"}] /\ left' \in [Writers -> 0..2]
    BY <2>4 DEF TypeOK
  <2> QED BY <1>5, <2>1, <2>2, <2>3, <2>4, <2>5, <2>6 DEF ProcessStart, procVars,
             jobVars, diskVars, histVars, TypeOK
<1>6. CASE Connect
  BY <1>6 DEF Connect, procVars, jobVars, diskVars, histVars, TypeOK
<1>7. CASE ReloadReads
  <2>1. draft' \in [Writers -> [Secrets -> Forms]]
    BY <1>7, FormFacts DEF ReloadReads, TypeOK
  <2>2. spoilt' \in BOOLEAN
    BY <1>7, Zenon DEF ReloadReads, TypeOK
  <2> QED BY <1>7, <2>1, <2>2 DEF ReloadReads, procVars, jobVars, diskVars,
             histVars, TypeOK
<1>8. CASE ReloadProcesses
  <2>1. "reload" \in Writers
    BY DEF Writers
  <2>2. Process(draft["reload"], key).has \in [Secrets -> Forms]
    BY <2>1, ProcessForms DEF TypeOK
  <2>3. draft' \in [Writers -> [Secrets -> Forms]]
    BY <1>8, <2>2, FormFacts DEF ReloadProcesses, TypeOK
  <2>4. cfg' \in Contents
    BY <1>8, <2>2, FormFacts DEF ReloadProcesses, TypeOK
  <2>5. at' \in {[at EXCEPT !["reload"] = "open"], [at EXCEPT !["reload"] = "idle"]}
    BY <1>8 DEF ReloadProcesses
  <2>6. left' \in {left, [left EXCEPT !["reload"] = 1]}
    BY <1>8 DEF ReloadProcesses
  <2>7. at' \in [Writers -> {"idle", "process", "open", "write"}]
    BY <2>5 DEF TypeOK
  <2>8. left' \in [Writers -> 0..2]
    BY <2>6 DEF TypeOK
  <2> QED BY <1>8, <2>1, <2>2, <2>3, <2>4, <2>5, <2>6, <2>7, <2>8
             DEF ReloadProcesses, procVars, jobVars, diskVars, histVars, TypeOK
<1>9. ASSUME NEW c \in [Secrets -> Values \cup {"none"}], UpdateArrives(c) PROVE TypeOK'
  <2>1. [s \in Secrets |-> [val |-> c[s], key |-> 0]] \in [Secrets -> Forms]
    BY FormFacts
  <2>2. draft' \in [Writers -> [Secrets -> Forms]]
    BY <1>9, <2>1 DEF UpdateArrives, TypeOK
  <2>3. spoilt' \in BOOLEAN
    BY <1>9, Zenon DEF UpdateArrives, TypeOK
  <2> QED BY <1>9, <2>1, <2>2, <2>3 DEF UpdateArrives, procVars, jobVars,
             diskVars, histVars, TypeOK
<1>10. CASE UpdateProcesses
  <2>1. "update" \in Writers
    BY DEF Writers
  <2>2. Process(draft["update"], key).has \in [Secrets -> Forms]
    BY <2>1, ProcessForms DEF TypeOK
  <2>3. draft' \in [Writers -> [Secrets -> Forms]]
    BY <1>10, <2>2, FormFacts DEF UpdateProcesses, TypeOK
  <2>4. at' \in {[at EXCEPT !["update"] = "open"], [at EXCEPT !["update"] = "idle"]}
    BY <1>10 DEF UpdateProcesses
  <2>5. left' \in {left, [left EXCEPT !["update"] = 1], [left EXCEPT !["update"] = 2]}
    BY <1>10 DEF UpdateProcesses
  <2>6. at' \in [Writers -> {"idle", "process", "open", "write"}]
    BY <2>4 DEF TypeOK
  <2>7. left' \in [Writers -> 0..2]
    BY <2>5 DEF TypeOK
  <2> QED BY <1>10, <2>1, <2>2, <2>3, <2>6, <2>7 DEF UpdateProcesses, procVars, jobVars,
             diskVars, histVars, TypeOK
<1>11. ASSUME NEW w \in Writers, Truncate(w) PROVE TypeOK'
  <2>1. file' \in Contents
    BY <1>11 DEF Truncate, TypeOK, Contents
  <2> QED BY <1>11, <2>1 DEF Truncate, procVars, jobVars, diskVars, histVars, TypeOK
<1>12. ASSUME NEW w \in Writers, Write(w) PROVE TypeOK'
  <2>1. draft[w] \in [Secrets -> Forms]
    BY DEF TypeOK
  <2>2. /\ [state |-> "whole", has |-> draft[w]] \in Contents
        /\ [state |-> "garbled", has |-> draft[w]] \in Contents
    BY <2>1 DEF Contents
  <2>3. file' \in Contents
    BY <1>12, <2>2 DEF Write
  <2>4. left[w] \in {1, 2}
    BY <1>12 DEF Write, JobInv
  <2>5. left' \in [Writers -> 0..2]
    BY <1>12, <2>4 DEF Write, TypeOK
  <2>6. draft' \in [Writers -> [Secrets -> Forms]]
    BY <1>12, FormFacts DEF Write, TypeOK
  <2>7. at' \in [Writers -> {"idle", "process", "open", "write"}]
    BY <1>12 DEF Write, TypeOK
  <2>8. cfg' \in Contents
    BY <1>12, <2>2 DEF Write, Resumes, TypeOK
  <2>9. main' \in {main, "connect"}
    BY <1>12 DEF Write, Resumes
  <2>10. wanted' \in [Secrets -> Values \cup {"none"}]
    BY <1>12, <2>1, FormFacts DEF Write, TypeOK
  <2> QED BY <1>12, <2>1, <2>2, <2>3, <2>4, <2>5, <2>6, <2>7, <2>8, <2>9, <2>10
         DEF Write, procVars, jobVars, diskVars, histVars, TypeOK
<1>13. ASSUME NEW w \in Writers, WriteFails(w) PROVE TypeOK'
  <2>1. draft' \in [Writers -> [Secrets -> Forms]]
    BY <1>13, FormFacts DEF WriteFails, TypeOK
  <2>2. at' \in [Writers -> {"idle", "process", "open", "write"}] /\ left' \in [Writers -> 0..2]
    BY <1>13 DEF WriteFails, TypeOK
  <2>3. faults' \in 0..MaxFaults
    BY <1>13, StoreAssumption DEF WriteFails, TypeOK
  <2>4. spoilt' \in BOOLEAN
    BY <1>13, Zenon DEF WriteFails, TypeOK
  <2> QED BY <1>13, <2>1, <2>2, <2>3, <2>4 DEF WriteFails, procVars, jobVars,
             diskVars, histVars, TypeOK
<1>14. CASE Crash
  <2>1. draft' \in [Writers -> [Secrets -> Forms]] /\ cfg' \in Contents
    BY <1>14, FormFacts DEF Crash
  <2>2. at' \in [Writers -> {"idle", "process", "open", "write"}] /\ left' \in [Writers -> 0..2]
    BY <1>14 DEF Crash
  <2>3. faults' \in 0..MaxFaults /\ key' \in 0..Short
    BY <1>14, StoreAssumption DEF Crash, TypeOK, NoKey, Short
  <2>4. spoilt' \in BOOLEAN
    BY <1>14, Zenon DEF Crash, TypeOK
  <2> QED BY <1>14, <2>1, <2>2, <2>3, <2>4 DEF Crash, procVars, jobVars, diskVars,
             histVars, TypeOK
<1>15. ASSUME NEW s \in Secrets, NEW v \in Values, Edit(s, v) PROVE TypeOK'
  <2>1. [val |-> v, key |-> 0] \in Forms
    BY FormFacts
  <2>2. file' \in Contents
    BY <1>15, <2>1 DEF Edit, TypeOK, Contents
  <2>3. wanted' \in [Secrets -> Values \cup {"none"}]
    BY <1>15 DEF Edit, TypeOK
  <2>4. edits' \in 0..MaxEdits
    BY <1>15, StoreAssumption DEF Edit, TypeOK
  <2>5. spoilt' \in BOOLEAN
    BY <1>15, Zenon DEF Edit, TypeOK
  <2> QED BY <1>15, <2>1, <2>2, <2>3, <2>4, <2>5 DEF Edit, procVars, jobVars,
             diskVars, histVars, TypeOK
<1>16. CASE UNCHANGED vars
  BY <1>16 DEF vars, procVars, jobVars, diskVars, histVars, TypeOK
<1> QED BY <1>1, <1>2, <1>3, <1>4, <1>5, <1>6, <1>7, <1>8, <1>9, <1>10, <1>11,
           <1>12, <1>13, <1>14, <1>15, <1>16 DEF Next, MainStep, JobStep

\* What is spoilt stays so.
LEMMA SpoiltStays == [Next]_vars /\ spoilt => spoilt'
BY Zenon DEF Next, MainStep, JobStep, Start, ReadKey, CreateKey, FillKey, ProcessStart,
       Connect, ReloadReads, ReloadProcesses, UpdateArrives, UpdateProcesses, Truncate,
       Write, WriteFails, Crash, Edit, histVars, vars

LEMMA KeyStep == TypeOK /\ KeyInv /\ JobInv /\ [Next]_vars => KeyInv'
<1> SUFFICES ASSUME TypeOK, KeyInv, JobInv, [Next]_vars PROVE KeyInv'
  OBVIOUS
<1> USE SpoiltStays
<1>1. CASE Start
  BY <1>1 DEF Start, procVars, jobVars, diskVars, histVars, KeyInv, JobInv, TypeOK
<1>2. CASE ReadKey
  <2>1. CASE main' = "process"
    BY <1>2, <2>1 DEF ReadKey, KeyInv
  <2>2. CASE main' = "create"
    <3>1. key' \in 1..MaxKeys
      BY <1>2, <2>2, StoreAssumption DEF ReadKey, TypeOK
    <3>2. keyFile' = NoKey \/ spoilt'
      BY <1>2, <2>2, Zenon DEF ReadKey
    <3> QED BY <2>2, <3>1, <3>2 DEF KeyInv
  <2> QED BY <1>2, <2>1, <2>2 DEF ReadKey
<1>3. CASE CreateKey
  BY <1>3 DEF CreateKey, procVars, jobVars, diskVars, histVars, KeyInv, JobInv,
         TypeOK
<1>4. CASE FillKey
  BY <1>4 DEF FillKey, procVars, jobVars, diskVars, histVars, KeyInv, JobInv, TypeOK
<1>5. CASE ProcessStart
  BY <1>5 DEF ProcessStart, procVars, jobVars, diskVars, histVars, KeyInv, JobInv,
         TypeOK
<1>6. CASE Connect
  BY <1>6 DEF Connect, procVars, jobVars, diskVars, histVars, KeyInv, JobInv, TypeOK
<1>7. CASE ReloadReads
  BY <1>7 DEF ReloadReads, procVars, jobVars, diskVars, histVars, KeyInv, JobInv,
         TypeOK
<1>8. CASE ReloadProcesses
  BY <1>8 DEF ReloadProcesses, procVars, jobVars, diskVars, histVars, KeyInv,
         JobInv, TypeOK
<1>9. ASSUME NEW c \in [Secrets -> Values \cup {"none"}], UpdateArrives(c) PROVE KeyInv'
  BY <1>9 DEF UpdateArrives, procVars, jobVars, diskVars, histVars, KeyInv,
         JobInv, TypeOK
<1>10. CASE UpdateProcesses
  BY <1>10 DEF UpdateProcesses, procVars, jobVars, diskVars, histVars, KeyInv,
         JobInv, TypeOK
<1>11. ASSUME NEW w \in Writers, Truncate(w) PROVE KeyInv'
  BY <1>11 DEF Truncate, procVars, jobVars, diskVars, histVars, KeyInv, JobInv,
         TypeOK
<1>12. ASSUME NEW w \in Writers, Write(w) PROVE KeyInv'
  <2>1. main' \in {main, "connect"} /\ (main' # main => main = "store")
    BY <1>12 DEF Write, Resumes, JobInv
  <2> QED BY <1>12, <2>1 DEF Write, KeyInv
<1>13. ASSUME NEW w \in Writers, WriteFails(w) PROVE KeyInv'
  BY <1>13 DEF WriteFails, procVars, jobVars, diskVars, histVars, KeyInv, JobInv,
         TypeOK
<1>14. CASE Crash
  BY <1>14 DEF Crash, procVars, jobVars, diskVars, histVars, KeyInv, JobInv, TypeOK
<1>15. ASSUME NEW s \in Secrets, NEW v \in Values, Edit(s, v) PROVE KeyInv'
  BY <1>15 DEF Edit, procVars, jobVars, diskVars, histVars, KeyInv, JobInv, TypeOK
<1>16. CASE UNCHANGED vars
  BY <1>16 DEF vars, procVars, jobVars, diskVars, histVars, KeyInv
<1> QED BY <1>1, <1>2, <1>3, <1>4, <1>5, <1>6, <1>7, <1>8, <1>9, <1>10, <1>11,
           <1>12, <1>13, <1>14, <1>15, <1>16 DEF Next, MainStep, JobStep

LEMMA WritersStep == TypeOK /\ JobInv /\ [Next]_vars => JobInv'
<1> SUFFICES ASSUME TypeOK, JobInv, [Next]_vars PROVE JobInv'
  OBVIOUS
<1>1. CASE Start
  BY <1>1 DEF Start, procVars, jobVars, diskVars, histVars, JobInv, TypeOK, Writers
<1>2. CASE ReadKey
  BY <1>2 DEF ReadKey, procVars, jobVars, diskVars, histVars, JobInv, TypeOK,
         Writers
<1>3. CASE CreateKey
  BY <1>3 DEF CreateKey, procVars, jobVars, diskVars, histVars, JobInv, TypeOK,
         Writers
<1>4. CASE FillKey
  BY <1>4 DEF FillKey, procVars, jobVars, diskVars, histVars, JobInv, TypeOK,
         Writers
<1>5. CASE ProcessStart
  BY <1>5 DEF ProcessStart, procVars, jobVars, diskVars, histVars, JobInv, TypeOK,
         Writers
<1>6. CASE Connect
  BY <1>6 DEF Connect, procVars, jobVars, diskVars, histVars, JobInv, TypeOK,
         Writers
<1>7. CASE ReloadReads
  BY <1>7 DEF ReloadReads, procVars, jobVars, diskVars, histVars, JobInv, TypeOK,
         Writers
<1>8. CASE ReloadProcesses
  BY <1>8 DEF ReloadProcesses, procVars, jobVars, diskVars, histVars, JobInv,
         TypeOK, Writers
<1>9. ASSUME NEW c \in [Secrets -> Values \cup {"none"}], UpdateArrives(c) PROVE JobInv'
  BY <1>9 DEF UpdateArrives, procVars, jobVars, diskVars, histVars, JobInv,
         TypeOK, Writers
<1>10. CASE UpdateProcesses
  BY <1>10 DEF UpdateProcesses, procVars, jobVars, diskVars, histVars, JobInv,
         TypeOK, Writers
<1>11. ASSUME NEW w \in Writers, Truncate(w) PROVE JobInv'
  BY <1>11 DEF Truncate, procVars, jobVars, diskVars, histVars, JobInv, TypeOK,
         Writers
<1>12. ASSUME NEW w \in Writers, Write(w) PROVE JobInv'
  <2>1. left[w] \in {1, 2} /\ at[w] = "write"
    BY <1>12 DEF Write, JobInv
  <2>2. \A u \in Writers : u # w => at'[u] = at[u] /\ left'[u] = left[u]
    BY <1>12 DEF Write, TypeOK
  <2>3. CASE left[w] = 1
    <3>1. at'[w] = "idle" /\ main' = IF w = "start" THEN "connect" ELSE main
      BY <1>12, <2>3 DEF Write, Resumes, TypeOK
    <3>2. w # "start" => at["start"] = "idle"
      BY <2>1, <1>12 DEF JobInv, Writers
    <3>3. w = "start" => at["reload"] = "idle" /\ at["update"] = "idle"
      BY <2>1 DEF JobInv
    <3> QED BY <2>1, <2>2, <3>1, <3>2, <3>3 DEF JobInv, Writers
  <2>4. CASE left[w] # 1
    <3>1. at'[w] = "open" /\ left'[w] = 1 /\ main' = main
      BY <1>12, <2>1, <2>4 DEF Write, TypeOK
    <3> QED BY <2>1, <2>2, <3>1 DEF JobInv, Writers
  <2> QED BY <2>3, <2>4
<1>13. ASSUME NEW w \in Writers, WriteFails(w) PROVE JobInv'
  BY <1>13 DEF WriteFails, procVars, jobVars, diskVars, histVars, JobInv, TypeOK,
         Writers
<1>14. CASE Crash
  BY <1>14 DEF Crash, procVars, jobVars, diskVars, histVars, JobInv, TypeOK, Writers
<1>15. ASSUME NEW s \in Secrets, NEW v \in Values, Edit(s, v) PROVE JobInv'
  BY <1>15 DEF Edit, procVars, jobVars, diskVars, histVars, JobInv, TypeOK, Writers
<1>16. CASE UNCHANGED vars
  BY <1>16 DEF vars, procVars, jobVars, diskVars, histVars, JobInv
<1> QED BY <1>1, <1>2, <1>3, <1>4, <1>5, <1>6, <1>7, <1>8, <1>9, <1>10, <1>11,
           <1>12, <1>13, <1>14, <1>15, <1>16 DEF Next, MainStep, JobStep

LEMMA CleanStep == StoreInv /\ [Next]_vars /\ ~spoilt' => Clean'
<1> SUFFICES ASSUME TypeOK, KeyInv, JobInv, ~spoilt => Clean, [Next]_vars, ~spoilt' PROVE Clean'
  BY DEF StoreInv
<1>0. Clean /\ ~spoilt
  BY SpoiltStays
<1>1. CASE Start
  BY <1>1, <1>0 DEF Start, procVars, jobVars, diskVars, histVars, TypeOK,
         Contents, Short, NoKey, KeyInv, JobInv, Clean, OneWriter, Emptied,
         Loaded, Drafts, FileIsGood, Proper, Writers
<1>2. CASE ReadKey
  BY <1>2, <1>0 DEF ReadKey, procVars, jobVars, diskVars, histVars, TypeOK,
         Contents, Short, NoKey, KeyInv, JobInv, Clean, OneWriter, Emptied,
         Loaded, Drafts, FileIsGood, Proper, Writers
<1>3. CASE CreateKey
  BY <1>3, <1>0 DEF CreateKey, procVars, jobVars, diskVars, histVars, TypeOK,
         Contents, Short, NoKey, KeyInv, JobInv, Clean, OneWriter, Emptied,
         Loaded, Drafts, FileIsGood, Proper, Writers
<1>4. CASE FillKey
  <2>1. keyFile = Short /\ \A w \in Writers : at[w] = "idle"
    BY <1>4 DEF FillKey, KeyInv, JobInv, Writers
  <2>2. \A c \in [Secrets -> Forms] : Proper(c) => \A s \in Secrets : c[s].val = wanted[s] /\ c[s].key = 0
    BY <2>1, FormFacts, StoreAssumption DEF Proper, Short
  <2>3. Proper(cfg.has) /\ file.state = "whole" /\ Proper(file.has)
    BY <1>4, <2>1, <1>0 DEF FillKey, Clean, Loaded, FileIsGood
  <2>4. cfg.has \in [Secrets -> Forms] /\ file.has \in [Secrets -> Forms]
    BY FormFacts DEF TypeOK
  <2>5. \A s \in Secrets : /\ cfg.has[s].val = wanted[s] /\ cfg.has[s].key = 0
                          /\ file.has[s].val = wanted[s] /\ file.has[s].key = 0
    BY <2>2, <2>3, <2>4
  <2>6. cfg' = cfg /\ file' = file /\ wanted' = wanted /\ at' = at
    BY <1>4 DEF FillKey, histVars, jobVars
  <2> QED BY <2>1, <2>3, <2>5, <2>6 DEF Clean, OneWriter, Emptied, Loaded, Drafts,
             FileIsGood, Proper, Writers
<1>5. CASE ProcessStart
  <2>1. "start" \in Writers /\ \A w \in Writers : at[w] = "idle"
    BY <1>5 DEF ProcessStart, JobInv, Writers
  <2>2. Proper(cfg.has) /\ file.state = "whole" /\ Proper(file.has)
    BY <1>5, <1>0, <2>1 DEF ProcessStart, Clean, Loaded, FileIsGood
  <2>3. /\ cfg.has \in [Secrets -> Forms] /\ key \in 0..Short
        /\ key \in {NoKey, keyFile}
    BY <1>5, FormFacts DEF ProcessStart, TypeOK, KeyInv
  <2>4. Proper(Process(cfg.has, key).has)
    BY <2>2, <2>3, ProcessForms DEF Proper, NoKey
  <2>5. file' = file /\ keyFile' = keyFile /\ wanted' = wanted /\ main' \in {"store", "connect"}
    BY <1>5 DEF ProcessStart, diskVars, histVars
  <2>6. \/ at' = at
        \/ /\ at' = [at EXCEPT !["start"] = "open"]
           /\ draft' = [draft EXCEPT !["start"] = Process(cfg.has, key).has]
    BY <1>5 DEF ProcessStart, jobVars
  <2>7. \A w \in Writers : at'[w] # "idle" =>
          w = "start" /\ at'[w] = "open" /\ draft'[w] = Process(cfg.has, key).has
    BY <2>1, <2>6 DEF TypeOK
  <2> QED BY <2>1, <2>2, <2>4, <2>5, <2>7 DEF Clean, OneWriter, Emptied, Loaded,
             Drafts, FileIsGood, Proper, Writers
<1>6. CASE Connect
  BY <1>6, <1>0 DEF Connect, procVars, jobVars, diskVars, histVars, TypeOK,
         Contents, Short, NoKey, KeyInv, JobInv, Clean, OneWriter, Emptied,
         Loaded, Drafts, FileIsGood, Proper, Writers
<1>7. CASE ReloadReads
  BY <1>7, <1>0 DEF ReloadReads, procVars, jobVars, diskVars, histVars, TypeOK,
         Contents, Short, NoKey, KeyInv, JobInv, Clean, OneWriter, Emptied,
         Loaded, Drafts, FileIsGood, Proper, Writers
<1>8. CASE ReloadProcesses
  <2>1. "reload" \in Writers /\ main = "run" /\ Proper(draft["reload"])
    BY <1>8, <1>0 DEF ReloadProcesses, JobInv, Writers, Clean, Drafts
  <2>2. \A w \in Writers : w # "reload" => at[w] = "idle"
    BY <1>8, <1>0, <2>1 DEF ReloadProcesses, Clean, OneWriter
  <2>3. /\ draft["reload"] \in [Secrets -> Forms] /\ key \in 0..Short
        /\ key \in {NoKey, keyFile}
    BY <2>1 DEF TypeOK, KeyInv
  <2>4. Proper(Process(draft["reload"], key).has)
    BY <2>1, <2>3, ProcessForms DEF Proper, NoKey
  <2>5. file' = file /\ keyFile' = keyFile /\ wanted' = wanted /\ main' = main
    BY <1>8 DEF ReloadProcesses, diskVars, histVars
  <2>6. \/ at' = [at EXCEPT !["reload"] = "idle"]
        \/ /\ at' = [at EXCEPT !["reload"] = "open"]
           /\ draft' = [draft EXCEPT !["reload"] = Process(draft["reload"], key).has]
    BY <1>8 DEF ReloadProcesses
  <2>7. \A w \in Writers : at'[w] # "idle" =>
          w = "reload" /\ at'[w] = "open" /\ draft'[w] = Process(draft["reload"], key).has
    BY <2>1, <2>2, <2>6 DEF TypeOK
  <2>8. file.state = "whole" /\ Proper(file.has)
    BY <1>8, <1>0, <2>2 DEF ReloadProcesses, Clean, FileIsGood
  <2> QED BY <2>1, <2>4, <2>5, <2>7, <2>8 DEF Clean, OneWriter, Emptied, Loaded,
             Drafts, FileIsGood, Proper, Writers
<1>9. ASSUME NEW c \in [Secrets -> Values \cup {"none"}], UpdateArrives(c) PROVE Clean'
  BY <1>9, <1>0 DEF UpdateArrives, procVars, jobVars, diskVars, histVars, TypeOK,
         Contents, Short, NoKey, KeyInv, JobInv, Clean, OneWriter, Emptied,
         Loaded, Drafts, FileIsGood, Proper, Writers
<1>10. CASE UpdateProcesses
  <2>1. /\ "update" \in Writers /\ main = "run"
        /\ \A s \in Secrets : draft["update"][s].key \in {0, keyFile}
    BY <1>10, <1>0 DEF UpdateProcesses, JobInv, Writers, Clean, Drafts
  <2>2. \A w \in Writers : w # "update" => at[w] = "idle"
    BY <1>10, <1>0, <2>1 DEF UpdateProcesses, Clean, OneWriter
  <2>3. /\ draft["update"] \in [Secrets -> Forms] /\ key \in 0..Short
        /\ key \in {NoKey, keyFile}
    BY <2>1 DEF TypeOK, KeyInv
  <2>4. \A s \in Secrets : Process(draft["update"], key).has[s].key \in {0, keyFile}
    BY <2>1, <2>3, ProcessForms DEF NoKey
  <2>5. file' = file /\ keyFile' = keyFile /\ wanted' = wanted /\ main' = main
    BY <1>10 DEF UpdateProcesses, diskVars, histVars, procVars
  <2>6. \/ at' = [at EXCEPT !["update"] = "idle"]
        \/ /\ at' = [at EXCEPT !["update"] = "open"]
           /\ draft' = [draft EXCEPT !["update"] = Process(draft["update"], key).has]
    BY <1>10 DEF UpdateProcesses
  <2>7. \A w \in Writers : at'[w] # "idle" =>
          w = "update" /\ at'[w] = "open" /\ draft'[w] = Process(draft["update"], key).has
    BY <2>1, <2>2, <2>6 DEF TypeOK
  <2>8. file.state = "whole" /\ Proper(file.has)
    BY <1>10, <1>0, <2>2 DEF UpdateProcesses, Clean, FileIsGood
  <2> QED BY <2>1, <2>4, <2>5, <2>7, <2>8 DEF Clean, OneWriter, Emptied, Loaded,
             Drafts, FileIsGood, Proper, Writers
<1>11. ASSUME NEW w \in Writers, Truncate(w) PROVE Clean'
  BY <1>11, <1>0 DEF Truncate, procVars, jobVars, diskVars, histVars, TypeOK,
         Contents, Short, NoKey, KeyInv, JobInv, Clean, OneWriter, Emptied,
         Loaded, Drafts, FileIsGood, Proper, Writers
<1>12. ASSUME NEW w \in Writers, Write(w) PROVE Clean'
  <2>1. /\ at[w] = "write" /\ main \in {"store", "run"}
        /\ file.state = "empty"
        /\ \A u \in Writers : u # w => at[u] = "idle"
    BY <1>12, <1>0 DEF Write, JobInv, Clean, Emptied, OneWriter, Writers
  <2>2. file' = [state |-> "whole", has |-> draft[w]] /\ keyFile' = keyFile
    BY <1>12, <2>1 DEF Write
  <2>3. wanted' = IF w = "update" THEN [s \in Secrets |-> draft[w][s].val] ELSE wanted
    BY <1>12 DEF Write
  <2>4. \A s \in Secrets : draft[w][s].val = wanted'[s] /\ draft[w][s].key \in {0, keyFile}
    BY <2>1, <2>3, <1>0 DEF Clean, Drafts, Proper, Writers
  <2>5. main' \in {main, "connect"}
    BY <1>12 DEF Write, Resumes
  <2>6. \A u \in Writers : at'[u] # "idle" => u = w /\ at'[u] = "open" /\ draft'[u] = draft[w]
    BY <1>12, <2>1 DEF Write, TypeOK
  <2>7. FileIsGood' /\ Loaded' /\ Emptied' /\ OneWriter'
    BY <2>1, <2>2, <2>4, <2>5, <2>6 DEF FileIsGood, Loaded, Emptied, OneWriter,
           Proper
  <2>8. Drafts'
    BY <2>2, <2>4, <2>6 DEF Drafts, Proper, Writers
  <2> QED BY <2>7, <2>8 DEF Clean
<1>13. ASSUME NEW w \in Writers, WriteFails(w) PROVE Clean'
  BY <1>13, <1>0 DEF WriteFails, procVars, jobVars, diskVars, histVars, TypeOK,
         Contents, Short, NoKey, KeyInv, JobInv, Clean, OneWriter, Emptied,
         Loaded, Drafts, FileIsGood, Proper, Writers
<1>14. CASE Crash
  BY <1>14, <1>0 DEF Crash, procVars, jobVars, diskVars, histVars, TypeOK,
         Contents, Short, NoKey, KeyInv, JobInv, Clean, OneWriter, Emptied,
         Loaded, Drafts, FileIsGood, Proper, Writers
<1>15. ASSUME NEW s \in Secrets, NEW v \in Values, Edit(s, v) PROVE Clean'
  <2>1. Calm /\ ~(main \in {"key", "create", "fill", "process"})
    BY <1>15 DEF Edit
  <2>2. file.state = "whole" /\ Proper(file.has)
    BY <1>15, <1>0 DEF Edit, Clean, FileIsGood
  <2>3. /\ file' = [file EXCEPT !.has[s] = [val |-> v, key |-> 0]]
        /\ wanted' = [wanted EXCEPT ![s] = v]
        /\ main' = main /\ at' = at /\ keyFile' = keyFile
    BY <1>15 DEF Edit, procVars, jobVars
  <2>4. file \in Contents /\ file.has \in [Secrets -> Forms] /\ wanted \in [Secrets -> Values \cup {"none"}]
    BY FormFacts DEF TypeOK
  <2>5. file'.state = "whole" /\ file'.has = [file.has EXCEPT ![s] = [val |-> v, key |-> 0]]
    BY <2>2, <2>3, <2>4 DEF Contents
  <2>6. \A t \in Secrets : file'.has[t].val = wanted'[t] /\ file'.has[t].key \in {0, keyFile}
    BY <2>2, <2>3, <2>4, <2>5 DEF Proper
  <2> QED BY <2>1, <2>3, <2>5, <2>6 DEF Clean, OneWriter, Emptied, Loaded, Drafts,
             FileIsGood, Proper, Calm, Writers
<1>16. CASE UNCHANGED vars
  BY <1>0, <1>16 DEF vars, procVars, jobVars, diskVars, histVars, Clean,
         OneWriter, Emptied, Loaded, Drafts, FileIsGood, Proper
<1> QED BY <1>1, <1>2, <1>3, <1>4, <1>5, <1>6, <1>7, <1>8, <1>9, <1>10, <1>11,
           <1>12, <1>13, <1>14, <1>15, <1>16 DEF Next, MainStep, JobStep

LEMMA SealStep == TypeOK /\ JobInv /\ SealInv /\ [Next]_vars => SealInv'
<1> SUFFICES ASSUME TypeOK, JobInv, SealInv, [Next]_vars PROVE SealInv'
  OBVIOUS
<1>1. CASE Start \/ ReadKey \/ CreateKey \/ FillKey \/ Connect
  <2>1. \A w \in Writers : at[w] = "idle"
    BY <1>1 DEF Start, ReadKey, CreateKey, FillKey, Connect, JobInv, Writers
  <2>2. at' = at
    BY <1>1 DEF Start, ReadKey, CreateKey, FillKey, Connect, jobVars
  <2> QED BY <2>1, <2>2 DEF SealInv, Writers
<1>2. CASE ProcessStart
  <2>1. \A w \in Writers : at[w] = "idle"
    BY <1>2 DEF ProcessStart, JobInv, Writers
  <2>2. CASE Process(cfg.has, key).ok /\ Process(cfg.has, key).rewrite
    <3>1. /\ at' = [at EXCEPT !["start"] = "open"]
          /\ draft' = [draft EXCEPT !["start"] = Process(cfg.has, key).has]
          /\ key' = key
      BY <1>2, <2>2 DEF ProcessStart
    <3>2. cfg.has \in [Secrets -> Forms] /\ key \in 0..Short
      BY FormFacts DEF TypeOK
    <3>3. key # NoKey => SealsSome(Process(cfg.has, key).has)
      BY <2>2, <3>2, ProcessSeals
    <3> QED BY <2>1, <3>1, <3>3 DEF SealInv, TypeOK, Writers
  <2>3. CASE ~(Process(cfg.has, key).ok /\ Process(cfg.has, key).rewrite)
    <3>1. at' = at
      BY <1>2, <2>3 DEF ProcessStart, jobVars
    <3> QED BY <2>1, <3>1 DEF SealInv, Writers
  <2> QED BY <2>2, <2>3
<1>3. CASE ReloadReads
  <2>1. at' = [at EXCEPT !["reload"] = "process"]
    BY <1>3 DEF ReloadReads
  <2>2. \A w \in Writers : w # "reload" => draft'[w] = draft[w]
    BY <1>3 DEF ReloadReads, TypeOK
  <2> QED BY <1>3, <2>1, <2>2 DEF ReloadReads, procVars, SealInv, TypeOK, Writers
<1>4. CASE ReloadProcesses
  <2>1. draft["reload"] \in [Secrets -> Forms] /\ key \in 0..Short /\ key' = key
    BY <1>4 DEF ReloadProcesses, TypeOK, Writers
  <2>2. \A w \in Writers : w # "reload" => at'[w] = at[w] /\ draft'[w] = draft[w]
    BY <1>4 DEF ReloadProcesses, TypeOK
  <2>3. \/ at'["reload"] = "idle"
        \/ /\ at'["reload"] = "open"
           /\ draft'["reload"] = Process(draft["reload"], key).has
           /\ Process(draft["reload"], key).ok /\ Process(draft["reload"], key).rewrite
    BY <1>4 DEF ReloadProcesses, TypeOK, Writers
  <2>4. key # NoKey /\ at'["reload"] = "open" => SealsSome(draft'["reload"])
    BY <2>1, <2>3, ProcessSeals
  <2> QED BY <2>1, <2>2, <2>3, <2>4 DEF SealInv, Writers
<1>5. ASSUME NEW c \in [Secrets -> Values \cup {"none"}], UpdateArrives(c) PROVE SealInv'
  <2>1. at' = [at EXCEPT !["update"] = "process"] /\ key' = key
    BY <1>5 DEF UpdateArrives, procVars
  <2>2. /\ \A w \in Writers : w # "update" => draft'[w] = draft[w]
        /\ draft'["update"] = [s \in Secrets |-> [val |-> c[s], key |-> 0]]
    BY <1>5 DEF UpdateArrives, TypeOK, Writers
  <2> QED BY <2>1, <2>2 DEF SealInv, TypeOK, Writers
<1>6. CASE UpdateProcesses
  <2>1. /\ draft["update"] \in [Secrets -> Forms] /\ key \in 0..Short /\ key' = key
        /\ \A s \in Secrets : draft["update"][s].key = 0
    BY <1>6 DEF UpdateProcesses, procVars, TypeOK, SealInv, Writers
  <2>2. \A w \in Writers : w # "update" => at'[w] = at[w] /\ draft'[w] = draft[w]
    BY <1>6 DEF UpdateProcesses, TypeOK
  <2>3. \/ at'["update"] = "idle"
        \/ /\ at'["update"] = "open"
           /\ draft'["update"] = Process(draft["update"], key).has
           /\ Process(draft["update"], key).ok
    BY <1>6 DEF UpdateProcesses, TypeOK, Writers
  <2>4. key # NoKey /\ at'["update"] = "open" => SealsSome(draft'["update"])
    BY <2>1, <2>3, ProcessSeals
  <2> QED BY <2>1, <2>2, <2>3, <2>4 DEF SealInv, Writers
<1>7. ASSUME NEW w \in Writers, Truncate(w) PROVE SealInv'
  BY <1>7 DEF Truncate, procVars, SealInv, TypeOK
<1>8. ASSUME NEW w \in Writers, Write(w) PROVE SealInv'
  <2>1. at[w] = "write" /\ key' = key
    BY <1>8 DEF Write
  <2>2. \A u \in Writers : u # w => at'[u] = at[u] /\ draft'[u] = draft[u]
    BY <1>8 DEF Write, TypeOK
  <2>3. CASE left[w] = 1
    <3>1. at'[w] = "idle"
      BY <1>8, <2>3 DEF Write, TypeOK
    <3> QED BY <2>1, <2>2, <3>1 DEF SealInv, Writers
  <2>4. CASE left[w] # 1
    <3>1. at'[w] = "open" /\ draft'[w] = draft[w]
      BY <1>8, <2>4 DEF Write, TypeOK
    <3> QED BY <2>1, <2>2, <3>1 DEF SealInv, Writers
  <2> QED BY <2>3, <2>4
<1>9. ASSUME NEW w \in Writers, WriteFails(w) PROVE SealInv'
  <2>1. at[w] \in {"open", "write"} /\ key' = key /\ at'[w] = "idle"
    BY <1>9 DEF WriteFails, TypeOK
  <2>2. \A u \in Writers : u # w => at'[u] = at[u] /\ draft'[u] = draft[u]
    BY <1>9 DEF WriteFails, TypeOK
  <2> QED BY <2>1, <2>2 DEF SealInv, Writers
<1>10. CASE Crash
  BY <1>10 DEF Crash, SealInv, Writers
<1>11. ASSUME NEW s \in Secrets, NEW v \in Values, Edit(s, v) PROVE SealInv'
  BY <1>11 DEF Edit, procVars, jobVars, SealInv
<1>12. CASE UNCHANGED vars
  BY <1>12 DEF vars, procVars, jobVars, SealInv
<1> QED BY <1>1, <1>2, <1>3, <1>4, <1>5, <1>6, <1>7, <1>8, <1>9, <1>10, <1>11,
           <1>12 DEF Next, MainStep, JobStep

-----------------------------------------------------------------------------
(* The theorems *)

LEMMA StoreIsInductive == Spec => []StoreInv
<1>1. StoreInv /\ [Next]_vars => StoreInv'
  BY TypeStep, KeyStep, WritersStep, CleanStep DEF StoreInv
<1> QED BY <1>1, StoreInit, PTL DEF Spec

\* The files, the memory and the jobs keep their forms.
THEOREM StoreTypes == Spec => []TypeOK
<1>1. StoreInv => TypeOK
  BY DEF StoreInv
<1> QED BY <1>1, StoreIsInductive, PTL

\* No crash, reload or update of the agent loses a secret, whichever way they
\* are interleaved: the exceptions are the changes of the file that spoilt names.
THEOREM SecretsSafe == Spec => []SecretsAreKept
<1>1. StoreInv => SecretsAreKept
  BY DEF StoreInv, Clean, FileIsGood, Proper, SecretsAreKept
<1> QED BY <1>1, StoreIsInductive, PTL

\* No write of the agent's turns all secrets into plain text while it has a key.
THEOREM SomeStaySealed == Spec => NeverAllPlain
<1>1. Init => SealInv
  BY DEF Init, SealInv, Writers
<1>2. StoreInv => TypeOK /\ JobInv
  BY DEF StoreInv
<1>3. SealInv =>
        \A w \in Writers :
          Write(w) /\ key # NoKey /\ (\E s \in Secrets : IsPlain(draft[w][s]))
             => \E s \in Secrets : IsSealed(draft[w][s])
  BY DEF SealInv, SealsSome, Write
<1> QED BY <1>1, <1>2, <1>3, SealStep, StoreIsInductive, PTL DEF Spec, NeverAllPlain

LEMMA StartOpens ==
    ASSUME TypeOK, KeyInv, Loaded, ProcessStart, ~spoilt,
           NEW s \in Secrets, IsSealed(cfg.has[s])
    PROVE  cfg'.has[s] = [val |-> wanted[s], key |-> 0]
<1>1. /\ cfg.has \in [Secrets -> Forms] /\ DOMAIN cfg = {"state", "has"}
      /\ main = "process"
  BY DEF TypeOK, Contents, ProcessStart
<1>2. \A t \in Secrets : cfg.has[t].val = wanted[t] /\ cfg.has[t].key \in {0, keyFile}
  BY <1>1 DEF Loaded, Proper
<1>3. cfg.has[s] \in [val : Values, key : 0..MaxKeys] /\ cfg.has[s].key # 0
  BY <1>1 DEF Forms, Absent, IsSealed
<1>4. key = keyFile /\ key \in 1..MaxKeys
  <2>1. keyFile \in 1..MaxKeys
    BY <1>2, <1>3, StoreAssumption
  <2> QED BY <1>1, <2>1, StoreAssumption DEF KeyInv, NoKey, Short
<1>5. \A t \in Secrets : ~Fails(cfg.has[t], key)
  BY <1>2, <1>4, StoreAssumption DEF Fails, IsSealed, Short
<1>6. cfg'.has = [t \in Secrets |-> Turned(cfg.has[t], key)]
  <2>1. Process(cfg.has, key).has = [t \in Secrets |-> Turned(cfg.has[t], key)]
    BY <1>4, <1>5 DEF Process, Secrets, NoKey
  <2>2. cfg' = [cfg EXCEPT !.has = Process(cfg.has, key).has]
    BY DEF ProcessStart
  <2> QED BY <1>1, <2>1, <2>2
<1>7. Turned(cfg.has[s], key) = [val |-> cfg.has[s].val, key |-> 0]
  BY <1>3 DEF Turned, IsPlain
<1> QED BY <1>2, <1>6, <1>7

\* A start opens every secret that it finds sealed.
THEOREM SealedOpens == Spec => SealedIsOpened
<1>1. StoreInv =>
        \A s \in Secrets :
          ProcessStart /\ ~spoilt /\ IsSealed(cfg.has[s])
             => cfg'.has[s] = [val |-> wanted[s], key |-> 0]
  BY StartOpens DEF StoreInv, Clean
<1> QED BY <1>1, StoreIsInductive, PTL DEF SealedIsOpened

LEMMA TurnedTwice ==
    ASSUME NEW f \in Forms, NEW k \in 1..MaxKeys, f.key \in {0, k}
    PROVE  ~Fails(f, k) /\ Turned(Turned(f, k), k) = f
<1>0. /\ MaxKeys \in Nat /\ k # 0 /\ ~Fails(f, k)
  BY StoreAssumption DEF Fails, IsSealed, Short
<1>1. CASE f = Absent
  <2>1. Turned(f, k) = f
    BY <1>1 DEF Turned, IsPlain, Absent
  <2> QED BY <1>0, <2>1
<1>2. CASE f \in [val : Values, key : 0..MaxKeys]
  <2>1. f.val # "none" /\ f = [val |-> f.val, key |-> f.key]
    BY <1>2, StoreAssumption
  <2>2. CASE f.key = 0
    <3>1. Turned(f, k) = [val |-> f.val, key |-> k]
      BY <1>2, <2>1, <2>2 DEF Turned, IsPlain
    <3>2. Turned([val |-> f.val, key |-> k], k) = [val |-> f.val, key |-> 0]
      BY <1>0 DEF Turned, IsPlain
    <3> QED BY <1>0, <2>1, <2>2, <3>1, <3>2
  <2>3. CASE f.key = k
    <3>1. Turned(f, k) = [val |-> f.val, key |-> 0]
      BY <1>0, <1>2, <2>3 DEF Turned, IsPlain
    <3>2. Turned([val |-> f.val, key |-> 0], k) = [val |-> f.val, key |-> k]
      BY <2>1 DEF Turned, IsPlain
    <3> QED BY <1>0, <2>1, <2>3, <3>1, <3>2
  <2> QED BY <2>2, <2>3
<1> QED BY <1>1, <1>2 DEF Forms

\* processConfig undoes itself: what one start seals the next one opens, so that
\* a file with a plain secret and a sealed one swaps them at each start, and a
\* cfg is fit for use only at every other one.
THEOREM TurningIsUndone ==
    ASSUME NEW c \in [Secrets -> Forms], NEW k \in 1..MaxKeys,
           \A s \in Secrets : c[s].key \in {0, k}
    PROVE  Process(Process(c, k).has, k).has = c
<1>0. k \in 0..Short /\ k # NoKey
  BY StoreAssumption DEF Short, NoKey
<1>1. \A s \in Secrets : /\ ~Fails(c[s], k) /\ Turned(Turned(c[s], k), k) = c[s]
                         /\ Turned(c[s], k) \in Forms /\ Turned(c[s], k).key \in {0, k}
  BY <1>0, TurnedTwice, TurnedForm
<1>2. Process(c, k).has = [s \in Secrets |-> Turned(c[s], k)]
  BY <1>0, <1>1 DEF Process, Secrets
<1> DEFINE d == [s \in Secrets |-> Turned(c[s], k)]
<1>3. \A s \in Secrets : ~Fails(d[s], k)
  BY <1>1, TurnedTwice
<1>4. Process(d, k).has = [s \in Secrets |-> Turned(d[s], k)]
  BY <1>0, <1>3 DEF Process, Secrets
<1>5. \A s \in Secrets : Turned(d[s], k) = c[s]
  BY <1>1
<1> HIDE DEF d
<1>6. [s \in Secrets |-> Turned(d[s], k)] = c
  BY <1>5
<1> QED BY <1>2, <1>4, <1>6 DEF d
=============================================================================
