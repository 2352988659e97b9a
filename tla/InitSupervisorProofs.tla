------------------------ MODULE InitSupervisorProofs ------------------------
(***************************************************************************)
(* Proofs about Init, for any entries of init.toml, any number of them, of *)
(* other programs, of resets, and any clock.                               *)
(***************************************************************************)
EXTENDS InitSupervisor, FiniteSetTheorems, TLAPS

Entry == [kind : Kind, pid : Pid \cup {Nothing}, ran : BOOLEAN, since : 0..Cap,
          should_start : BOOLEAN, nvs_write : BOOLEAN]

PlacesInv ==
    /\ apps \in [App -> Entry] /\ [a \in App |-> apps[a].kind] \in Tables
    /\ init \in [pc : {"load", "validate", "look", "start", "wait"}, at : 0..NumApps]
    /\ init.pc = "start" => init.at \in App
    /\ up \in 0..Cap /\ due \subseteq App
    /\ process \in [Pid -> App \cup {Nothing, Elsewhere}]
    /\ once \subseteq App /\ firmware \in {"pending", "valid", "rolled back"}
    /\ unmarked \in BOOLEAN
    /\ resets \in 0..MaxResets
    /\ ended \subseteq App /\ excused \subseteq App /\ deceived \subseteq App

(* Hades reports an end once, when the process is gone.                    *)
ReportsInv ==
    /\ reports \in Seq(Pid)
    /\ \A i \in DOMAIN reports : process[reports[i]] = Nothing
    /\ \A i, j \in DOMAIN reports : reports[i] = reports[j] => i = j

(* An entry knows its process for as long as it runs, and an application   *)
(* is run by one entry of those that the scan sees.                        *)
ProcessInv ==
    /\ \A p \in Pid : process[p] \in App => apps[process[p]].pid = p
    /\ \A p, q \in Pid : /\ p # q /\ {process[p], process[q]} \subseteq App
                            /\ SharesApplication(process[p], process[q])
                            => Unscanned \in {p, q}

(* An entry has a PID for as long as its process runs or the report of its *)
(* end waits, or it was answered one that no process had.                  *)
HeldInv ==
    \A a \in App : apps[a].pid # Nothing =>
        Running(a) \/ a \in deceived \/ \E i \in DOMAIN reports : reports[i] = apps[a].pid

(* Nothing runs until the firmware has been marked.                        *)
FirmwareInv ==
    IF init.pc \in {"load", "validate"} THEN \A a \in App : ~Running(a)
    ELSE firmware # "pending" \/ unmarked

(* What is due was never started, or asks to be started again.             *)
DueInv ==
    /\ \A a \in App : apps[a].pid # Nothing => apps[a].ran
    /\ \A a \in due : apps[a].ran => Periodic(a)

(* A run_once program that has ended: its mark is written, or its report   *)
(* is still to come, or it is not due again.                               *)
OnceInv ==
    /\ \A a \in App : apps[a].nvs_write => a \in once
    /\ \A a \in ended \ excused :
         /\ apps[a].kind.run_once /\ ~Running(a)
         /\ a \in once \/ apps[a].pid # Nothing \/ (apps[a].ran /\ ~Periodic(a))

InitInv == PlacesInv /\ ReportsInv /\ ProcessInv /\ HeldInv /\ FirmwareInv /\ DueInv /\ OnceInv
-----------------------------------------------------------------------------
(* What the assumption on the constants says, piece by piece.              *)
LEMMA ConstantFacts ==
    /\ NumApps \in Nat /\ NumPids \in Nat /\ Cap \in Nat /\ MaxResets \in Nat
    /\ 0 \in 0..Cap /\ Cap \in 0..Cap
    /\ Nothing \notin Pid /\ Nothing \notin App
    /\ Elsewhere \notin App /\ Elsewhere # Nothing
    /\ \A k \in Kind : /\ {k.restart_on_failure, k.run_once} \subseteq BOOLEAN
                       /\ {k.start_every, k.start_delay} \subseteq 0..Cap
BY InitAssumption DEF Nothing, Pid, App, Elsewhere, Kind

(* Time makes nothing older than the bound.                                *)
LEMMA OlderType ==
    \A age \in 0..Cap : \A limits \in SUBSET (0..Cap) : Older(age, limits) \in 0..Cap
BY InitAssumption DEF Older

(* Free says that a PID is in no report.                                   *)
LEMMA FreeFacts ==
    ASSUME InitInv, NEW p \in Pid, Free(p)
    PROVE  process[p] = Nothing /\ \A i \in DOMAIN reports : reports[i] # p
<1>1. DOMAIN reports = 1..Len(reports)
  BY DEF InitInv, ReportsInv
<1> QED
  BY <1>1 DEF Free, Contains

(* The head of the reports is of a process that is gone, and the rest are  *)
(* as they were.                                                           *)
LEMMA ReportTaken ==
    ASSUME InitInv, reports # <<>>
    PROVE  /\ Head(reports) \in Pid /\ process[Head(reports)] = Nothing
           /\ reports' = Tail(reports) /\ process' = process => ReportsInv'
           /\ \A i \in DOMAIN reports : reports[i] # Head(reports) =>
                \E j \in DOMAIN Tail(reports) : Tail(reports)[j] = reports[i]
<1>1. reports \in Seq(Pid)
  BY DEF InitInv, ReportsInv
<1>2. /\ Head(reports) \in Pid /\ Head(reports) = reports[1] /\ 1 \in DOMAIN reports
      /\ Tail(reports) \in Seq(Pid)
      /\ \A i \in DOMAIN Tail(reports) :
           i \in Nat /\ i + 1 \in DOMAIN reports /\ Tail(reports)[i] = reports[i + 1]
  BY <1>1
<1>3. \A i, j \in DOMAIN Tail(reports) : Tail(reports)[i] = Tail(reports)[j] => i = j
  <2> SUFFICES ASSUME NEW i \in DOMAIN Tail(reports), NEW j \in DOMAIN Tail(reports),
                      Tail(reports)[i] = Tail(reports)[j]
               PROVE  i = j
    OBVIOUS
  <2>1. i + 1 = j + 1
    BY <1>2 DEF InitInv, ReportsInv
  <2> QED
    BY <2>1, <1>2
<1>4. \A i \in DOMAIN Tail(reports) : process[Tail(reports)[i]] = Nothing
  BY <1>2 DEF InitInv, ReportsInv
<1>5. ASSUME NEW i \in DOMAIN reports, reports[i] # Head(reports)
      PROVE  \E j \in DOMAIN Tail(reports) : Tail(reports)[j] = reports[i]
  <2>1. i # 1
    BY <1>2, <1>5
  <2>2. i - 1 \in DOMAIN Tail(reports) /\ (i - 1) + 1 = i
    BY <1>1, <1>5, <2>1
  <2> QED
    BY <1>2, <2>2
<1> QED
  BY <1>2, <1>3, <1>4, <1>5 DEF InitInv, ReportsInv
-----------------------------------------------------------------------------
(* What the steps do to an entry.                                          *)
LEMMA EntryTypes ==
    ASSUME NEW e \in Entry
    PROVE  /\ e.kind \in Kind /\ e.pid \in Pid \cup {Nothing} /\ e.since \in 0..Cap
           /\ {e.ran, e.should_start, e.nvs_write} \subseteq BOOLEAN
BY DEF Entry

Alike(f, e) == f.kind = e.kind /\ f.pid = e.pid /\ f.ran = e.ran /\ f.nvs_write = e.nvs_write

LEMMA EntryMarked ==
    ASSUME NEW e \in Entry, NEW b \in BOOLEAN, NEW f, f = [e EXCEPT !.should_start = b]
    PROVE  f \in Entry /\ Alike(f, e)
BY DEF Entry, Alike

LEMMA EntryAged ==
    ASSUME NEW e \in Entry, NEW age \in 0..Cap, NEW f, f = [e EXCEPT !.since = age]
    PROVE  f \in Entry /\ Alike(f, e)
BY DEF Entry, Alike

LEMMA EntryCleared ==
    ASSUME NEW e \in Entry, NEW f, f = [e EXCEPT !.pid = Nothing]
    PROVE  /\ f \in Entry /\ f.kind = e.kind /\ f.pid = Nothing
           /\ f.ran = e.ran /\ f.nvs_write = e.nvs_write
BY ConstantFacts DEF Entry

(* A step that leaves every entry's program, process and marks alone.      *)
SameEntries ==
    /\ apps' \in [App -> Entry]
    /\ \A a \in App : Alike(apps'[a], apps[a])

LEMMA SameKinds ==
    ASSUME InitInv, apps' \in [App -> Entry], \A a \in App : apps'[a].kind = apps[a].kind
    PROVE  /\ [a \in App |-> apps[a].kind]' \in Tables
           /\ \A a, b \in App : SharesApplication(a, b)' <=> SharesApplication(a, b)
           /\ \A a \in App : Periodic(a)' <=> Periodic(a)
<1>1. [a \in App |-> apps[a].kind]' = [a \in App |-> apps[a].kind]
  OBVIOUS
<1> QED
  BY <1>1 DEF InitInv, PlacesInv, SharesApplication, Periodic

LEMMA SameEntriesPreserve ==
    ASSUME InitInv, SameEntries, UNCHANGED <<process, reports, once, ended, excused, deceived>>,
           due' \subseteq App, \A a \in due' : apps[a].ran => Periodic(a)
    PROVE  ReportsInv' /\ ProcessInv' /\ HeldInv' /\ DueInv' /\ OnceInv'
<1>1. /\ \A a, b \in App : SharesApplication(a, b)' <=> SharesApplication(a, b)
      /\ \A a \in App : Periodic(a)' <=> Periodic(a)
  BY SameKinds DEF SameEntries, Alike
<1>2. process \in [Pid -> App \cup {Nothing, Elsewhere}] /\ ended \subseteq App
  BY DEF InitInv, PlacesInv
<1>3. ReportsInv'
  BY DEF InitInv, ReportsInv
<1>4. ProcessInv'
  BY <1>1, <1>2 DEF InitInv, ProcessInv, SameEntries, Alike
<1>5. DueInv'
  BY <1>1 DEF InitInv, DueInv, SameEntries, Alike
<1>6. OnceInv'
  BY <1>1, <1>2 DEF InitInv, OnceInv, SameEntries, Alike, Running
<1>7. HeldInv'
  BY DEF InitInv, HeldInv, SameEntries, Alike, Running
<1> QED
  BY <1>3, <1>4, <1>5, <1>6, <1>7

(* Reading the marks decides only whether an entry should start.           *)
LEMMA LoadPreserves ==
    ASSUME InitInv, Load
    PROVE  InitInv'
<1>1. PICK misread \in SUBSET once :
        apps' = [a \in App |-> [apps[a] EXCEPT !.should_start = ~Marked(a) \/ a \in misread]]
  BY DEF Load
<1>2. SameEntries
  <2> SUFFICES ASSUME NEW a \in App
               PROVE  apps'[a] \in Entry /\ Alike(apps'[a], apps[a])
    BY <1>1 DEF SameEntries
  <2>1. PICK b \in BOOLEAN : apps'[a] = [apps[a] EXCEPT !.should_start = b]
    <3>1. (~Marked(a) \/ a \in misread) \in BOOLEAN
      OBVIOUS
    <3>2. apps'[a] = [apps[a] EXCEPT !.should_start = ~Marked(a) \/ a \in misread]
      BY <1>1
    <3> QED
      BY <3>1, <3>2, Zenon
  <2>2. apps[a] \in Entry
    BY DEF InitInv, PlacesInv
  <2> QED
    BY <2>1, <2>2, EntryMarked
<1>3. [a \in App |-> apps[a].kind]' \in Tables
  BY <1>2, SameKinds DEF SameEntries, Alike
<1>4. PlacesInv'
  <2>1. /\ init' \in [pc : {"load", "validate", "look", "start", "wait"}, at : 0..NumApps]
        /\ init'.pc # "start"
    BY ConstantFacts DEF Load, Goes
  <2> QED
    BY <1>2, <1>3, <2>1 DEF Load, InitInv, PlacesInv, SameEntries, flash, history
<1>5. ReportsInv' /\ ProcessInv' /\ HeldInv' /\ DueInv' /\ OnceInv'
  BY <1>2, SameEntriesPreserve DEF Load, InitInv, PlacesInv, DueInv, flash, history
<1>6. FirmwareInv'
  BY DEF Load, InitInv, FirmwareInv, Running, Goes
<1> QED
  BY <1>4, <1>5, <1>6 DEF InitInv

(* The steps that change no entry: of run_init's validation, its look at   *)
(* the clock, entries passed over, failed starts, an empty wait.           *)
LEMMA IdlePreserves ==
    ASSUME InitInv,
           \/ Validate \/ Look \/ WaitTimesOut
           \/ \E a \in App : Pass(a) \/ StartFails(a)
    PROVE  InitInv'
<1> USE DEF Goes, Proceed, flash, history, Validate, Look, WaitTimesOut, Pass, CanStart, StartFails
<1>1. SameEntries /\ apps' = apps
  BY DEF InitInv, PlacesInv, SameEntries, Alike
<1>2. UNCHANGED <<process, reports, once, ended, excused, deceived>>
  OBVIOUS
<1>3. due' \subseteq App /\ \A a \in due' : apps[a].ran => Periodic(a)
  <2>1. CASE Look
    BY <2>1, ConstantFacts DEF Due, Periodic, InitInv, PlacesInv, Entry, Kind
  <2>2. CASE ~Look
    BY <2>2 DEF InitInv, PlacesInv, DueInv
  <2> QED
    BY <2>1, <2>2
<1>4. PlacesInv'
  <2>1. init' \in [pc : {"load", "validate", "look", "start", "wait"}, at : 0..NumApps]
        /\ (init'.pc = "start" => init'.at \in App)
    <3>1. CASE Validate \/ Look \/ WaitTimesOut
      BY <3>1, ConstantFacts, InitAssumption DEF App
    <3>2. ASSUME NEW a \in App, Pass(a) \/ StartFails(a)
          PROVE  init' \in [pc : {"start", "wait"}, at : 0..NumApps]
                 /\ (init'.pc = "start" => init'.at \in App)
      BY <3>2, ConstantFacts DEF App
    <3> QED
      BY <3>1, <3>2
  <2>2. up' = up /\ resets' = resets /\ unmarked' \in BOOLEAN
        /\ firmware' \in {"pending", "valid", "rolled back"}
    BY DEF InitInv, PlacesInv
  <2> QED
    BY <1>1, <1>2, <1>3, <2>1, <2>2 DEF InitInv, PlacesInv
<1>5. FirmwareInv'
  <2>1. CASE Validate
    BY <2>1 DEF InitInv, FirmwareInv, PlacesInv
  <2>2. CASE ~Validate
    <3>1. init.pc \in {"look", "start", "wait"} /\ init'.pc \in {"look", "start", "wait"}
          /\ UNCHANGED <<firmware, unmarked>>
      BY <2>2
    <3> QED
      BY <3>1 DEF InitInv, FirmwareInv
  <2> QED
    BY <2>1, <2>2
<1> QED
  BY <1>1, <1>2, <1>3, <1>4, <1>5, SameEntriesPreserve DEF InitInv

(* start_app took an answer for a PID: the entry has it, and has run.      *)
LEMMA EntryGetsPid ==
    ASSUME InitInv, NEW a \in App, NEW p \in Pid,
           TakesPid(a, p)
    PROVE  /\ \A b \in App \ {a} : apps'[b] = apps[b]
           /\ apps'[a].kind = apps[a].kind /\ apps'[a].pid = p
           /\ apps'[a].ran = TRUE /\ apps'[a].nvs_write = apps[a].nvs_write
           /\ apps' \in [App -> Entry]
           /\ [b \in App |-> apps[b].kind]' \in Tables
           /\ \A b, c \in App : SharesApplication(b, c)' <=> SharesApplication(b, c)
           /\ \A b \in App : Periodic(b)' <=> Periodic(b)
<1>1. apps \in [App -> Entry]
  BY DEF InitInv, PlacesInv
<1>2. apps' = [apps EXCEPT ![a] = [apps[a] EXCEPT !.pid = p, !.since = 0, !.ran = TRUE]]
  BY <1>1 DEF TakesPid
<1>3. apps[a] \in Entry /\ apps'[a] = [apps[a] EXCEPT !.pid = p, !.since = 0, !.ran = TRUE]
  BY <1>1, <1>2
<1>4. /\ apps'[a] \in Entry /\ apps'[a].kind = apps[a].kind /\ apps'[a].pid = p
      /\ apps'[a].ran = TRUE /\ apps'[a].nvs_write = apps[a].nvs_write
  BY <1>3, ConstantFacts DEF Entry
<1>5. apps' \in [App -> Entry] /\ \A b \in App \ {a} : apps'[b] = apps[b]
  BY <1>1, <1>2, <1>4
<1> QED
  BY <1>4, <1>5, SameKinds

(* start_app: the entry was not running, nor its application where the     *)
(* scan looks, nor has it ended for good unless its mark was misread.      *)
LEMMA StartPreserves ==
    ASSUME InitInv, NEW a \in App, Start(a)
    PROVE  InitInv'
<1> USE ConstantFacts
<1>1. PICK p \in Pid :
        /\ Fresh(p, a)
        /\ process' = [process EXCEPT ![p] = a]
        /\ TakesPid(a, p)
  BY DEF Start
<1>2. process[p] = Nothing /\ \A i \in DOMAIN reports : reports[i] # p
  BY <1>1, FreeFacts DEF Fresh
<1>3. /\ \A b \in App \ {a} : apps'[b] = apps[b]
      /\ apps'[a].kind = apps[a].kind /\ apps'[a].pid = p
      /\ apps'[a].ran = TRUE /\ apps'[a].nvs_write = apps[a].nvs_write
      /\ apps' \in [App -> Entry]
  BY <1>1, EntryGetsPid
<1>4. /\ [b \in App |-> apps[b].kind]' \in Tables
      /\ \A b, c \in App : SharesApplication(b, c)' <=> SharesApplication(b, c)
      /\ \A b \in App : Periodic(b)' <=> Periodic(b)
  BY <1>1, EntryGetsPid
<1>5. /\ apps[a].pid = Nothing /\ a \in due
      /\ \A q \in Pid \ {Unscanned} :
           process[q] \in App => ~SharesApplication(a, process[q])
  BY DEF Start, CanStart, Willing
<1>6. /\ \A q \in Pid \ {p} : process'[q] = process[q]
      /\ process'[p] = a /\ process' \in [Pid -> App \cup {Nothing, Elsewhere}]
  BY <1>1 DEF InitInv, PlacesInv
<1>7. PlacesInv'
  <2>1. /\ init' \in [pc : {"load", "validate", "look", "start", "wait"}, at : 0..NumApps]
        /\ init'.pc = "start" => init'.at \in App
    BY DEF Start, Proceed, Goes, App
  <2>2. due' \subseteq App /\ excused' \subseteq App
    BY DEF Start, Proceed, InitInv, PlacesInv
  <2> QED
    BY <1>3, <1>4, <1>6, <2>1, <2>2 DEF Start, flash, InitInv, PlacesInv
<1>8. ReportsInv'
  BY <1>2, <1>6 DEF Start, InitInv, ReportsInv
<1>9. ProcessInv'
  <2>1. \A q \in Pid : process'[q] \in App => apps'[process'[q]].pid = q
    <3> SUFFICES ASSUME NEW q \in Pid, process'[q] \in App
                 PROVE  apps'[process'[q]].pid = q
      OBVIOUS
    <3>1. CASE q = p
      BY <1>3, <1>6, <3>1
    <3>2. CASE q # p
      <4>1. apps[process[q]].pid = q
        BY <1>6, <3>2 DEF InitInv, ProcessInv
      <4>2. process[q] # a
        BY <1>5, <4>1
      <4> QED
        BY <1>3, <1>6, <3>2, <4>1, <4>2
    <3> QED
      BY <3>1, <3>2
  <2>2. ASSUME NEW q \in Pid, NEW r \in Pid, q # r, process'[q] \in App, process'[r] \in App,
               SharesApplication(process'[q], process'[r])
        PROVE  Unscanned \in {q, r}
    <3>1. CASE q = p
      BY <1>5, <1>6, <2>2, <3>1
    <3>2. CASE r = p
      BY <1>5, <1>6, <2>2, <3>2 DEF SharesApplication
    <3>3. CASE q # p /\ r # p
      BY <1>6, <2>2, <3>3 DEF InitInv, ProcessInv
    <3> QED
      BY <3>1, <3>2, <3>3
  <2> QED
    BY <1>4, <1>6, <2>1, <2>2 DEF ProcessInv
<1>10. FirmwareInv'
  <2>1. init.pc = "start" /\ init'.pc \in {"start", "wait"} /\ UNCHANGED <<firmware, unmarked>>
    BY DEF Start, CanStart, Proceed, Goes, flash
  <2> QED
    BY <2>1 DEF InitInv, FirmwareInv
<1>11. DueInv'
  BY <1>3, <1>4 DEF Start, Proceed, InitInv, DueInv, PlacesInv
<1>12. OnceInv'
  <2>1. excused \subseteq excused' /\ ended' = ended /\ once' = once
    BY DEF Start, flash
  <2>2. a \in ended => a \in excused'
    <3> SUFFICES ASSUME a \in ended, a \notin excused
                 PROVE  Marked(a)
      BY <2>1 DEF Start
    <3>1. apps[a].kind.run_once /\ (a \in once \/ (apps[a].ran /\ ~Periodic(a)))
      BY <1>5 DEF InitInv, OnceInv
    <3> QED
      BY <1>5, <3>1 DEF InitInv, DueInv, Marked
  <2>3. ASSUME NEW b \in ended, b \notin excused'
        PROVE  ~Running(b)'
    <3>1. b # a /\ \A q \in Pid : process[q] # b
      BY <2>1, <2>2, <2>3 DEF InitInv, OnceInv, Running
    <3> QED
      BY <1>6, <3>1 DEF Running
  <2>4. ASSUME NEW b \in ended, b \notin excused'
        PROVE  /\ apps'[b].kind.run_once
               /\ b \in once' \/ apps'[b].pid # Nothing \/ (apps'[b].ran /\ ~Periodic(b)')
    <3>1. /\ b # a /\ b \in App /\ b \notin excused
          /\ apps[b].kind.run_once
          /\ b \in once \/ apps[b].pid # Nothing \/ (apps[b].ran /\ ~Periodic(b))
      BY <2>1, <2>2, <2>4 DEF InitInv, OnceInv, PlacesInv
    <3>2. apps'[b] = apps[b]
      BY <1>3, <3>1
    <3> QED
      BY <1>4, <2>1, <3>1, <3>2
  <2>5. \A b \in App : apps'[b].nvs_write => b \in once'
    BY <1>3, <2>1 DEF InitInv, OnceInv
  <2> QED
    BY <2>1, <2>3, <2>4, <2>5 DEF OnceInv
<1>13. HeldInv'
  <2> SUFFICES ASSUME NEW b \in App, apps'[b].pid # Nothing
               PROVE  Running(b)' \/ b \in deceived
                      \/ \E i \in DOMAIN reports : reports[i] = apps'[b].pid
    BY DEF Start, HeldInv
  <2>1. CASE b = a
    BY <1>6, <2>1 DEF Running
  <2>2. CASE b # a
    <3>1. Running(b) => Running(b)'
      BY <1>2, <1>6 DEF Running
    <3> QED
      BY <1>3, <2>2, <3>1 DEF InitInv, HeldInv
  <2> QED
    BY <2>1, <2>2
<1> QED
  BY <1>7, <1>8, <1>9, <1>10, <1>11, <1>12, <1>13 DEF InitInv

(* An answered PID that no process has: only the entry changes.            *)
LEMMA StartAnswersFreedPreserves ==
    ASSUME InitInv, NEW a \in App, StartAnswersFreed(a)
    PROVE  InitInv'
<1> USE ConstantFacts
<1>1. PICK p \in Pid : TakesPid(a, p)
  BY DEF StartAnswersFreed
<1>2. /\ \A b \in App \ {a} : apps'[b] = apps[b]
      /\ apps'[a].kind = apps[a].kind /\ apps'[a].pid = p
      /\ apps'[a].ran = TRUE /\ apps'[a].nvs_write = apps[a].nvs_write
      /\ apps' \in [App -> Entry]
      /\ [b \in App |-> apps[b].kind]' \in Tables
      /\ \A b, c \in App : SharesApplication(b, c)' <=> SharesApplication(b, c)
      /\ \A b \in App : Periodic(b)' <=> Periodic(b)
  BY <1>1, EntryGetsPid
<1>3. /\ apps[a].pid = Nothing /\ due' = due \ {a} /\ deceived' = deceived \cup {a}
      /\ UNCHANGED <<up, process, reports, once, firmware, resets, ended, excused, unmarked>>
  BY DEF StartAnswersFreed, CanStart, Willing, Proceed, flash
<1>4. PlacesInv'
  <2>1. /\ init' \in [pc : {"load", "validate", "look", "start", "wait"}, at : 0..NumApps]
        /\ init'.pc = "start" => init'.at \in App
    BY DEF StartAnswersFreed, Proceed, Goes, App
  <2> QED
    BY <1>2, <1>3, <2>1 DEF InitInv, PlacesInv
<1>5. ReportsInv'
  BY <1>3 DEF InitInv, ReportsInv
<1>6. ProcessInv'
  <2>1. \A q \in Pid : process[q] # a
    BY <1>3 DEF InitInv, ProcessInv
  <2> QED
    BY <1>2, <1>3, <2>1 DEF InitInv, ProcessInv
<1>7. \A b \in App : Running(b)' <=> Running(b)
  BY <1>3 DEF Running
<1>8. HeldInv'
  BY <1>2, <1>3, <1>7 DEF InitInv, HeldInv
<1>9. FirmwareInv'
  <2>1. init.pc = "start" /\ init'.pc \in {"start", "wait"}
    BY DEF StartAnswersFreed, CanStart, Proceed, Goes
  <2> QED
    BY <1>3, <2>1 DEF InitInv, FirmwareInv
<1>10. DueInv'
  BY <1>2, <1>3 DEF InitInv, DueInv, PlacesInv
<1>11. OnceInv'
  <2>1. \A b \in App : apps'[b].nvs_write => b \in once'
    BY <1>2, <1>3 DEF InitInv, OnceInv
  <2>2. ASSUME NEW b \in ended' \ excused'
        PROVE  /\ apps'[b].kind.run_once /\ ~Running(b)'
               /\ b \in once' \/ apps'[b].pid # Nothing \/ (apps'[b].ran /\ ~Periodic(b)')
    <3>1. b \in App /\ b \in ended \ excused
      BY <1>3 DEF InitInv, PlacesInv
    <3>2. CASE b = a
      BY <1>2, <1>3, <1>7, <3>1, <3>2 DEF InitInv, OnceInv
    <3>3. CASE b # a
      BY <1>2, <1>3, <1>7, <3>1, <3>3 DEF InitInv, OnceInv
    <3> QED
      BY <3>2, <3>3
  <2> QED
    BY <2>1, <2>2 DEF OnceInv
<1> QED
  BY <1>4, <1>5, <1>6, <1>8, <1>9, <1>10, <1>11 DEF InitInv

(* The report of an end: the entries it names have no process any more,    *)
(* and their marks are either written, or they are excused or not due.     *)
LEMMA ReapPreserves ==
    ASSUME InitInv, Reap
    PROVE  InitInv'
<1> USE ConstantFacts
<1>1. PICK failed \in SUBSET {a \in Named : Writes(a)}, stored \in SUBSET App :
        /\ stored \subseteq failed
        /\ apps' = [a \in App |->
             IF a \notin Named THEN apps[a]
             ELSE IF a \in failed THEN [apps[a] EXCEPT !.pid = Nothing]
             ELSE [Gone(a) EXCEPT !.nvs_write = @ \/ Writes(a)]]
        /\ once' = once \cup stored \cup {a \in Named \ failed : Writes(a)}
        /\ excused' = excused \cup {a \in failed : Periodic(a)}
  BY DEF Reap
<1>2. /\ reports # <<>> /\ reports' = Tail(reports) /\ deceived' = deceived \ Named
      /\ UNCHANGED <<up, due, process, firmware, resets, ended, unmarked>>
  BY DEF Reap
<1>3. Named \subseteq App /\ \A a \in App : a \in Named <=> apps[a].pid = Head(reports)
  BY DEF Named
<1>4. process[Head(reports)] = Nothing /\ Head(reports) \in Pid /\ ReportsInv'
  BY <1>2, ReportTaken
<1>5. /\ \A a \in App \ Named : apps'[a] = apps[a]
      /\ \A a \in Named : /\ apps'[a] \in Entry
                           /\ apps'[a].kind = apps[a].kind /\ apps'[a].pid = Nothing
                           /\ apps'[a].ran = apps[a].ran
      /\ \A a \in failed : apps'[a].nvs_write = apps[a].nvs_write
      /\ \A a \in Named \ failed : apps'[a].nvs_write = (apps[a].nvs_write \/ Writes(a))
  <2>1. \A a \in App \ Named : apps'[a] = apps[a]
    BY <1>1
  <2>2. ASSUME NEW a \in Named
        PROVE  /\ apps'[a] \in Entry
               /\ apps'[a].kind = apps[a].kind /\ apps'[a].pid = Nothing
               /\ apps'[a].ran = apps[a].ran
               /\ a \in failed => apps'[a].nvs_write = apps[a].nvs_write
               /\ a \notin failed => apps'[a].nvs_write = (apps[a].nvs_write \/ Writes(a))
    <3>1. apps[a] \in Entry /\ a \in App
      BY <1>3 DEF InitInv, PlacesInv
    <3>2. CASE a \in failed
      <4>1. apps'[a] = [apps[a] EXCEPT !.pid = Nothing]
        BY <1>1, <3>1, <3>2
      <4> QED
        BY <3>1, <3>2, <4>1, EntryCleared
    <3>3. CASE a \notin failed
      <4>1. PICK s \in BOOLEAN, w \in BOOLEAN :
              /\ apps'[a] = [apps[a] EXCEPT !.pid = Nothing, !.should_start = s, !.nvs_write = w]
              /\ w = (apps[a].nvs_write \/ Writes(a))
        <5>1. /\ (apps[a].should_start /\ Periodic(a)) \in BOOLEAN
              /\ (apps[a].nvs_write \/ Writes(a)) \in BOOLEAN
          OBVIOUS
        <5>2. apps'[a] = [apps[a] EXCEPT !.pid = Nothing, !.should_start = @ /\ Periodic(a),
                                         !.nvs_write = @ \/ Writes(a)]
          BY <1>1, <3>1, <3>3 DEF Gone
        <5> QED
          BY <5>1, <5>2, Zenon
      <4> QED
        BY <3>1, <3>3, <4>1, ConstantFacts DEF Entry
    <3> QED
      BY <3>2, <3>3
  <2> QED
    BY <2>1, <2>2
<1>6. apps' \in [App -> Entry] /\ \A a \in App : apps'[a].kind = apps[a].kind
  <2>1. \A a \in App : apps'[a] \in Entry /\ apps'[a].kind = apps[a].kind
    BY <1>5 DEF InitInv, PlacesInv
  <2> QED
    BY <1>1, <2>1
<1>7. /\ [b \in App |-> apps[b].kind]' \in Tables
      /\ \A b, c \in App : SharesApplication(b, c)' <=> SharesApplication(b, c)
      /\ \A b \in App : Periodic(b)' <=> Periodic(b)
  BY <1>6, SameKinds
<1>8. PlacesInv'
  <2>1. init' \in [pc : {"load", "validate", "look", "start", "wait"}, at : 0..NumApps]
        /\ init'.pc = "look"
    BY DEF Reap, Goes
  <2>2. once' \subseteq App /\ excused' \subseteq App /\ deceived' \subseteq App
    BY <1>1, <1>2, <1>3 DEF InitInv, PlacesInv
  <2> QED
    BY <1>2, <1>6, <1>7, <2>1, <2>2 DEF InitInv, PlacesInv
<1>9. ProcessInv'
  <2>1. \A p \in Pid : process[p] \in App => process[p] \notin Named
    BY <1>3, <1>4 DEF InitInv, ProcessInv
  <2> QED
    BY <1>2, <1>5, <1>7, <2>1 DEF InitInv, ProcessInv
<1>10. HeldInv'
  <2> SUFFICES ASSUME NEW a \in App, apps'[a].pid # Nothing
               PROVE  Running(a)' \/ a \in deceived'
                      \/ \E i \in DOMAIN reports' : reports'[i] = apps'[a].pid
    BY DEF HeldInv
  <2>1. a \notin Named /\ apps'[a] = apps[a] /\ apps[a].pid # Head(reports)
    BY <1>3, <1>5
  <2>2. Running(a) \/ a \in deceived \/ \E i \in DOMAIN reports : reports[i] = apps[a].pid
    BY <2>1 DEF InitInv, HeldInv
  <2>3. CASE Running(a) \/ a \in deceived
    BY <1>2, <2>1, <2>3 DEF Running
  <2>4. CASE \E i \in DOMAIN reports : reports[i] = apps[a].pid
    BY <1>2, <2>1, <2>4, ReportTaken
  <2> QED
    BY <2>2, <2>3, <2>4
<1>11. FirmwareInv'
  <2>1. init.pc = "wait" /\ init'.pc = "look"
    BY DEF Reap, Goes
  <2> QED
    BY <1>2, <2>1 DEF InitInv, FirmwareInv
<1>12. DueInv'
  BY <1>2, <1>5, <1>7 DEF InitInv, DueInv, PlacesInv
<1>13. OnceInv'
  <2>1. ASSUME NEW a \in App, apps'[a].nvs_write
        PROVE  a \in once'
    <3>1. CASE a \in failed
      <4>1. a \in App /\ apps[a].nvs_write = apps'[a].nvs_write
        BY <1>5, <3>1
      <4> QED
        BY <1>1, <2>1, <4>1 DEF InitInv, OnceInv
    <3>2. CASE a \in Named \ failed
      BY <1>1, <1>5, <2>1, <3>2 DEF InitInv, OnceInv
    <3>3. CASE a \notin Named
      BY <1>1, <1>5, <2>1, <3>3 DEF InitInv, OnceInv
    <3> QED
      BY <3>1, <3>2, <3>3
  <2>2. ASSUME NEW a \in ended' \ excused'
        PROVE  /\ apps'[a].kind.run_once /\ ~Running(a)'
               /\ a \in once' \/ apps'[a].pid # Nothing \/ (apps'[a].ran /\ ~Periodic(a)')
    <3>1. a \in App /\ a \in ended \ excused
      BY <1>1, <1>2 DEF InitInv, PlacesInv
    <3>2. /\ apps[a].kind.run_once /\ ~Running(a)
          /\ a \in once \/ apps[a].pid # Nothing \/ (apps[a].ran /\ ~Periodic(a))
      BY <3>1 DEF InitInv, OnceInv
    <3>3. apps'[a].kind.run_once /\ ~Running(a)'
      BY <1>2, <1>6, <3>1, <3>2 DEF Running
    <3>4. CASE a \notin Named
      BY <1>1, <1>5, <1>7, <3>1, <3>2, <3>3, <3>4
    <3>5. CASE a \in failed
      <4>1. ~Periodic(a) /\ apps[a].ran
        BY <1>1, <1>3, <1>4, <2>2, <3>1, <3>5 DEF InitInv, DueInv
      <4>2. apps'[a].ran
        BY <1>1, <1>5, <3>5, <4>1
      <4> QED
        BY <1>7, <3>1, <3>3, <4>1, <4>2
    <3>6. CASE a \in Named \ failed
      <4>1. a \in once' \/ (apps[a].nvs_write /\ a \in once)
        BY <1>1, <3>1, <3>2, <3>6 DEF Writes, InitInv, OnceInv
      <4> QED
        BY <1>1, <3>3, <4>1
    <3> QED
      BY <1>1, <3>4, <3>5, <3>6
  <2> QED
    BY <2>1, <2>2 DEF OnceInv
<1> QED
  BY <1>4, <1>8, <1>9, <1>10, <1>11, <1>12, <1>13 DEF InitInv
-----------------------------------------------------------------------------
LEMMA EntryAges ==
    ASSUME InitInv
    PROVE  /\ \A a \in App : /\ apps[a] \in Entry
                             /\ Older(apps[a].since, {2, apps[a].kind.start_every}) \in 0..Cap
           /\ Older(up, {apps[a].kind.start_delay : a \in App}) \in 0..Cap
<1>1. ASSUME NEW a \in App
      PROVE  apps[a] \in Entry /\ Older(apps[a].since, {2, apps[a].kind.start_every}) \in 0..Cap
  <2>1. apps[a] \in Entry
    BY DEF InitInv, PlacesInv
  <2>2. apps[a].since \in 0..Cap /\ apps[a].kind.start_every \in 0..Cap /\ 2 \in 0..Cap
    BY <2>1, EntryTypes, ConstantFacts, InitAssumption
  <2>3. {2, apps[a].kind.start_every} \in SUBSET (0..Cap)
    BY <2>2
  <2> QED
    BY <2>1, <2>2, <2>3, OlderType
<1>2. Older(up, {apps[a].kind.start_delay : a \in App}) \in 0..Cap
  <2>1. \A a \in App : apps[a].kind.start_delay \in 0..Cap
    BY EntryTypes, ConstantFacts DEF InitInv, PlacesInv
  <2>2. up \in 0..Cap /\ {apps[a].kind.start_delay : a \in App} \in SUBSET (0..Cap)
    BY <2>1 DEF InitInv, PlacesInv
  <2> QED
    BY <2>2, OlderType
<1> QED
  BY <1>1, <1>2

LEMMA TickPreserves ==
    ASSUME InitInv, Tick
    PROVE  InitInv'
<1>1. apps' = [a \in App |->
          [apps[a] EXCEPT !.since = Older(apps[a].since, {2, apps[a].kind.start_every})]]
  BY DEF Tick
<1>2. SameEntries
  <2> SUFFICES ASSUME NEW a \in App
               PROVE  apps'[a] \in Entry /\ Alike(apps'[a], apps[a])
    BY <1>1 DEF SameEntries
  <2>1. apps[a] \in Entry /\ Older(apps[a].since, {2, apps[a].kind.start_every}) \in 0..Cap
    BY EntryAges
  <2> QED
    BY <1>1, <2>1, EntryAged
<1>3. [a \in App |-> apps[a].kind]' \in Tables
  BY <1>2, SameKinds DEF SameEntries, Alike
<1>4. PlacesInv'
  <2>1. up' \in 0..Cap
    BY EntryAges DEF Tick
  <2> QED
    BY <1>2, <1>3, <2>1 DEF Tick, flash, history, InitInv, PlacesInv, SameEntries
<1>5. ReportsInv' /\ ProcessInv' /\ HeldInv' /\ DueInv' /\ OnceInv'
  BY <1>2, SameEntriesPreserve DEF Tick, flash, history, InitInv, PlacesInv, DueInv
<1>6. FirmwareInv'
  BY DEF Tick, flash, history, InitInv, FirmwareInv, Running
<1> QED
  BY <1>4, <1>5, <1>6 DEF InitInv

(* The process that ends was its entry's only one, and the entry holds its *)
(* PID until the report is taken.                                          *)
LEMMA EndPreserves ==
    ASSUME InitInv, NEW p \in Pid, End(p)
    PROVE  InitInv'
<1> USE ConstantFacts
<1>1. /\ \A q \in Pid \ {p} : process'[q] = process[q]
      /\ process'[p] = Nothing /\ process' \in [Pid -> App \cup {Nothing, Elsewhere}]
  BY DEF End, InitInv, PlacesInv
<1>2. UNCHANGED <<apps, init, up, due, once, firmware, resets, excused, deceived, unmarked>>
  BY DEF End, flash
<1>3. ended' \subseteq App
  BY DEF End, InitInv, PlacesInv
<1>4. PlacesInv'
  BY <1>1, <1>2, <1>3 DEF InitInv, PlacesInv
<1>5. ReportsInv'
  <2>1. reports \in Seq(Pid) /\ \A i \in DOMAIN reports : reports[i] # p
    BY DEF End, InitInv, ReportsInv
  <2>2. /\ reports' \in Seq(Pid) /\ DOMAIN reports' = DOMAIN reports \cup {Len(reports) + 1}
        /\ \A i \in DOMAIN reports : reports'[i] = reports[i]
        /\ reports'[Len(reports) + 1] = p
    BY <2>1 DEF End
  <2> QED
    BY <1>1, <2>1, <2>2 DEF InitInv, ReportsInv
<1>6. ProcessInv'
  BY <1>1, <1>2 DEF InitInv, ProcessInv, SharesApplication
<1>7. FirmwareInv'
  BY <1>1, <1>2 DEF InitInv, FirmwareInv, Running
<1>8. DueInv'
  BY <1>2 DEF InitInv, DueInv, Periodic
<1>9. OnceInv'
  <2> SUFFICES ASSUME NEW b \in ended' \ excused
               PROVE  /\ apps[b].kind.run_once /\ ~Running(b)'
                      /\ b \in once \/ apps[b].pid # Nothing \/ (apps[b].ran /\ ~Periodic(b))
    BY <1>2 DEF InitInv, OnceInv, Periodic
  <2>1. CASE b \in ended
    <3>1. b \in App /\ ~Running(b)
      BY <2>1 DEF InitInv, PlacesInv, OnceInv
    <3>2. ~Running(b)'
      BY <1>1, <3>1 DEF Running
    <3> QED
      BY <2>1, <3>2 DEF InitInv, OnceInv
  <2>2. CASE b \notin ended
    <3>1. b \in App /\ b = process[p] /\ apps[b].kind.run_once
      BY <2>2 DEF End
    <3>2. apps[b].pid = p /\ \A q \in Pid : process[q] = b => q = p
      BY <3>1 DEF InitInv, ProcessInv
    <3> QED
      BY <1>1, <3>1, <3>2 DEF Running
  <2> QED
    BY <2>1, <2>2
<1>10. HeldInv'
  <2> SUFFICES ASSUME NEW a \in App, apps[a].pid # Nothing
               PROVE  Running(a)' \/ a \in deceived
                      \/ \E i \in DOMAIN reports' : reports'[i] = apps[a].pid
    BY <1>2 DEF HeldInv
  <2>1. reports \in Seq(Pid) /\ reports' = Append(reports, p)
    BY DEF End, InitInv, ReportsInv
  <2>2. /\ \A i \in DOMAIN reports : i \in DOMAIN reports' /\ reports'[i] = reports[i]
        /\ Len(reports) + 1 \in DOMAIN reports' /\ reports'[Len(reports) + 1] = p
    BY <2>1
  <2>3. CASE Running(a)
    <3>1. PICK q \in Pid : process[q] = a
      BY <2>3 DEF Running
    <3>2. apps[a].pid = q
      BY <3>1 DEF InitInv, ProcessInv
    <3> QED
      BY <1>1, <2>2, <3>1, <3>2 DEF Running
  <2>4. CASE a \in deceived \/ \E i \in DOMAIN reports : reports[i] = apps[a].pid
    BY <2>2, <2>4
  <2> QED
    BY <2>3, <2>4 DEF InitInv, HeldInv
<1> QED
  BY <1>4, <1>5, <1>6, <1>7, <1>8, <1>9, <1>10 DEF InitInv

LEMMA LaunchPreserves ==
    ASSUME InitInv, NEW p \in Pid, Launch(p)
    PROVE  InitInv'
<1> USE ConstantFacts
<1>1. process[p] = Nothing /\ \A i \in DOMAIN reports : reports[i] # p
  BY FreeFacts DEF Launch, Fresh
<1>2. /\ \A q \in Pid \ {p} : process'[q] = process[q]
      /\ process'[p] = Elsewhere /\ process' \in [Pid -> App \cup {Nothing, Elsewhere}]
  BY DEF Launch, InitInv, PlacesInv
<1>3. UNCHANGED <<apps, init, up, due, reports, flash, history>>
  BY DEF Launch
<1>4. PlacesInv'
  BY <1>2, <1>3 DEF flash, history, InitInv, PlacesInv
<1>5. ReportsInv'
  BY <1>1, <1>2, <1>3 DEF InitInv, ReportsInv
<1>6. ProcessInv'
  BY <1>2, <1>3 DEF InitInv, ProcessInv, SharesApplication
<1>7. \A a \in App : Running(a)' <=> Running(a)
  BY <1>1, <1>2 DEF Running
<1>8. FirmwareInv'
  BY <1>3, <1>7 DEF flash, history, InitInv, FirmwareInv
<1>9. DueInv' /\ OnceInv'
  BY <1>3, <1>7 DEF flash, history, InitInv, PlacesInv, DueInv, OnceInv, Periodic
<1>10. HeldInv'
  BY <1>3, <1>7 DEF history, InitInv, HeldInv
<1> QED
  BY <1>4, <1>5, <1>6, <1>8, <1>9, <1>10 DEF InitInv

(* A reset leaves no process, report or entry's state, and excuses what    *)
(* had ended before its mark was written.                                  *)
LEMMA ResetPreserves ==
    ASSUME InitInv, Reset
    PROVE  InitInv'
<1> USE ConstantFacts
<1>1. PICK clock \in {0, Cap} : apps' = [a \in App |-> Unstarted(apps[a].kind, clock)]
  BY DEF Reset
<1>2. \A a \in App : /\ apps'[a] \in Entry /\ apps'[a].kind = apps[a].kind
                      /\ apps'[a].pid = Nothing /\ ~apps'[a].ran /\ ~apps'[a].nvs_write
  BY <1>1, EntryTypes DEF Unstarted, Entry, InitInv, PlacesInv
<1>3. apps' \in [App -> Entry] /\ [a \in App |-> apps[a].kind]' \in Tables
  <2>1. apps' \in [App -> Entry]
    BY <1>1, <1>2
  <2> QED
    BY <1>2, <2>1, SameKinds
<1>4. \A p \in Pid : process'[p] = Nothing
  BY DEF Reset
<1>5. PlacesInv'
  <2>1. process' \in [Pid -> App \cup {Nothing, Elsewhere}]
    BY DEF Reset
  <2>2. init' \in [pc : {"load", "validate", "look", "start", "wait"}, at : 0..NumApps]
        /\ init'.pc = "load"
    <3>1. init' = [pc |-> "load", at |-> 0]
      BY DEF Reset, Goes
    <3> QED
      BY <3>1
  <2>3. /\ up' = 0 /\ due' = {} /\ unmarked' = FALSE
        /\ firmware' \in {"pending", "valid", "rolled back"}
    BY DEF Reset, InitInv, PlacesInv
  <2>4. once' \subseteq App /\ ended' \subseteq App /\ excused' \subseteq App /\ deceived' \subseteq App
    BY DEF Reset, InitInv, PlacesInv
  <2>5. resets' \in 0..MaxResets
    <3>1. resets \in 0..MaxResets /\ resets < MaxResets /\ resets' = resets + 1
      BY DEF Reset, InitInv, PlacesInv
    <3> QED
      BY <3>1
  <2> QED
    BY <1>3, <2>1, <2>2, <2>3, <2>4, <2>5 DEF PlacesInv
<1>6. ReportsInv'
  <2>1. reports' = <<>>
    BY DEF Reset
  <2> QED
    BY <2>1 DEF ReportsInv
<1>7. ProcessInv' /\ FirmwareInv'
  BY <1>4 DEF Reset, Goes, ProcessInv, FirmwareInv, Running
<1>8. DueInv' /\ HeldInv'
  BY <1>2 DEF Reset, DueInv, HeldInv
<1>9. OnceInv'
  <2>1. ASSUME NEW a \in ended' \ excused'
        PROVE  apps'[a].kind.run_once /\ ~Running(a)' /\ a \in once'
    <3>1. a \in ended \ excused /\ once' = once /\ (a \in once \/ apps[a].nvs_write)
      BY <2>1 DEF Reset
    <3>2. a \in App
      BY <3>1 DEF InitInv, PlacesInv
    <3>3. apps[a].kind.run_once /\ a \in once
      BY <3>1, <3>2 DEF InitInv, OnceInv
    <3> QED
      BY <1>2, <1>4, <3>1, <3>2, <3>3 DEF Running
  <2> QED
    BY <1>2, <2>1 DEF OnceInv
<1> QED
  BY <1>5, <1>6, <1>7, <1>8, <1>9 DEF InitInv
-----------------------------------------------------------------------------
(* Whatever init.toml says, and whenever programs end or the badge resets. *)
THEOREM InitInvariance == Spec => []InitInv
<1>1. Init => InitInv
  <2> SUFFICES ASSUME Init PROVE InitInv
    OBVIOUS
  <2> USE ConstantFacts DEF Init
  <2>1. PICK kinds \in Tables : apps = [a \in App |-> Unstarted(kinds[a], 0)]
    OBVIOUS
  <2>2. kinds \in [App -> Kind]
    BY InitAssumption
  <2>3. \A a \in App : /\ apps[a] \in Entry /\ apps[a].kind = kinds[a]
                        /\ apps[a].pid = Nothing /\ ~apps[a].ran /\ ~apps[a].nvs_write
    BY <2>1, <2>2 DEF Unstarted, Entry
  <2>4. [a \in App |-> apps[a].kind] = kinds
    BY <2>2, <2>3
  <2>5. PlacesInv
    <3>1. apps \in [App -> Entry]
      BY <2>1, <2>3
    <3>2. init \in [pc : {"load", "validate", "look", "start", "wait"}, at : 0..NumApps]
          /\ init.pc = "load"
      OBVIOUS
    <3>3. process \in [Pid -> App \cup {Nothing, Elsewhere}] /\ resets \in 0..MaxResets
      OBVIOUS
    <3> QED
      BY <2>4, <3>1, <3>2, <3>3 DEF PlacesInv
  <2>6. ReportsInv
    BY DEF ReportsInv
  <2>7. ProcessInv /\ FirmwareInv
    BY DEF ProcessInv, FirmwareInv, Running
  <2>8. HeldInv /\ DueInv /\ OnceInv
    BY <2>3 DEF HeldInv, DueInv, OnceInv
  <2> QED
    BY <2>5, <2>6, <2>7, <2>8 DEF InitInv
<1>2. InitInv /\ [Next]_vars => InitInv'
  <2> SUFFICES ASSUME InitInv, [Next]_vars
               PROVE  InitInv'
    OBVIOUS
  <2>1. CASE InitStep
    BY <2>1, LoadPreserves, IdlePreserves, StartPreserves,
       StartAnswersFreedPreserves, ReapPreserves DEF InitStep
  <2>2. CASE Tick \/ Reset
    BY <2>2, TickPreserves, ResetPreserves
  <2>3. ASSUME NEW p \in Pid, End(p) \/ Launch(p)
        PROVE  InitInv'
    BY <2>3, EndPreserves, LaunchPreserves
  <2>4. CASE UNCHANGED vars
    BY <2>4 DEF vars, ram, flash, history, InitInv, PlacesInv, ReportsInv, ProcessInv, HeldInv,
                FirmwareInv, DueInv, OnceInv, Running, SharesApplication, Periodic
  <2> QED
    BY <2>1, <2>2, <2>3, <2>4 DEF Next
<1> QED
  BY <1>1, <1>2, PTL DEF Spec

(* Reports of different processes are no more than there are PIDs.         *)
LEMMA ReportsAreFew ==
    ASSUME InitInv
    PROVE  Len(reports) <= NumPids
<1> SUFFICES ASSUME Len(reports) > NumPids PROVE FALSE
  BY ConstantFacts DEF InitInv, ReportsInv
<1>1. /\ reports \in Seq(Pid) /\ Len(reports) \in Nat /\ DOMAIN reports = 1..Len(reports)
      /\ reports \in [1..Len(reports) -> Pid]
  BY DEF InitInv, ReportsInv
<1>2. /\ IsFiniteSet(1..Len(reports)) /\ Cardinality(1..Len(reports)) = Len(reports)
      /\ IsFiniteSet(Pid) /\ Cardinality(Pid) = NumPids
  <2>1. \A n \in Nat : IsFiniteSet(1..n) /\ Cardinality(1..n) = n
    BY FS_Interval
  <2> QED
    BY <1>1, <2>1, ConstantFacts DEF Pid
<1>3. \E i, j \in 1..Len(reports) : i # j /\ reports[i] = reports[j]
  BY <1>1, <1>2, FS_PigeonHole
<1> QED
  BY <1>1, <1>3 DEF InitInv, ReportsInv

(* maybe_start_app and the reaping: of what Init starts, no entry runs     *)
(* twice, whatever the order of ends and starts, nor, but under the last   *)
(* PID, any application.                                                   *)
THEOREM NoEntryTwice == Spec => []OneProcessOfEach
<1>1. InitInv => OneProcessOfEach
  <2> SUFFICES ASSUME InitInv PROVE OneProcessOfEach
    OBVIOUS
  <2>1. InitTypeOK
    <3>1. \A a \in App : /\ apps[a].pid \in Pid \cup {Nothing} /\ apps[a].since \in 0..Cap
                          /\ {apps[a].ran, apps[a].should_start, apps[a].nvs_write} \subseteq BOOLEAN
      BY EntryTypes DEF InitInv, PlacesInv
    <3>2. init.pc \in {"load", "validate", "look", "start", "wait"} /\ init.at \in 0..NumApps
      BY DEF InitInv, PlacesInv
    <3>3. reports \in Seq(Pid) /\ Len(reports) <= NumPids
      BY ReportsAreFew DEF InitInv, ReportsInv
    <3> QED
      BY <3>1, <3>2, <3>3 DEF InitInv, PlacesInv, InitTypeOK
  <2>2. ASSUME NEW p \in Pid, NEW q \in Pid, p # q, {process[p], process[q]} \subseteq App
        PROVE  /\ process[p] # process[q]
               /\ SharesApplication(process[p], process[q]) => Unscanned \in {p, q}
    BY <2>2 DEF InitInv, ProcessInv
  <2> QED
    BY <2>1, <2>2 DEF OneProcessOfEach
<1> QED
  BY <1>1, InitInvariance, PTL

(* app->pid of start_app and the wait: an entry that is not to be started  *)
(* because it has a PID has the process, or will be told of its end, or    *)
(* was answered the PID of a program that never was; no end is missed.     *)
THEOREM NoEndIsMissed == Spec => []HeldInv
<1> QED
  BY InitInvariance, PTL DEF InitInv

(* The mark in NVS: a run_once program that has ended runs again only if   *)
(* its mark could not be written or read, or a reset came before it.       *)
THEOREM OnceIsEnough == Spec => []RunOnceStaysDone
<1>1. InitInv => RunOnceStaysDone
  BY DEF InitInv, OnceInv, RunOnceStaysDone
<1> QED
  BY <1>1, InitInvariance, PTL

(* validate_ota_partition comes before the first start of every boot, so   *)
(* no program that Init starts can have the image rolled back, unless      *)
(* marking it failed.                                                      *)
THEOREM FirmwareIsGood == Spec => []AppsRunOnGoodFirmware
<1>1. InitInv => AppsRunOnGoodFirmware
  BY DEF InitInv, FirmwareInv, AppsRunOnGoodFirmware
<1> QED
  BY <1>1, InitInvariance, PTL
=============================================================================
