-------------------------- MODULE OtaSessionProofs --------------------------
(***************************************************************************)
(* Proofs about the OTA session, for any number of tasks, sessions and     *)
(* kills.                                                                  *)
(***************************************************************************)
EXTENDS OtaSession, FiniteSetTheorems, TLAPS

Where == {"rest", "record", "begin", "clear", "write", "end", "setboot", "free", "close",
          "abort", "abortfree", "abortopen", "aborterror", "dead"}

(* Each step of a call says what it leaves of the session; Hades, once he  *)
(* has opened it to others, is done with it.                               *)
Inside == {"record", "begin", "clear", "write", "end", "setboot", "free", "close",
           "abort", "abortfree", "abortopen"}
Aborting(t, where) == hades.task = t /\ hades.pc \in where
Uses(t) == \/ pc[t] \in Inside
           \/ has[t] = "mine" /\ pc[t] = "rest"
           \/ t \in resources /\ ~Aborting(t, {"aborterror"})

(* Where tasks and Hades are, and whom the record of the session names.    *)
PlacesInv ==
    /\ pc \in [Task -> Where]
    /\ hades \in [pc : {"rest", "abort", "abortopen", "aborterror"}, task : Task]
    /\ hades.pc # "rest" => pc[hades.task] = "dead" /\ hades.task \in resources
    /\ \A t \in Task :
         /\ pc[t] = "begin" => t \in resources
         /\ pc[t] \in {"close", "abortopen", "aborterror"} => t \notin resources
         /\ pc[t] = "dead" => has[t] = "none"

(* Only who set open uses the session ...                                  *)
OwnerInv == \A t \in Task : Uses(t) => open /\ opener = t

(* ... and ESP-IDF has none but his, from its beginning until its end.     *)
LiveInv ==
    live # {} =>
      /\ live = {handle} /\ open
      /\ opener \in resources
      /\ pc[opener] \in {"clear", "rest", "write", "end", "abort", "dead"}
      /\ ~Aborting(opener, {"abortopen", "aborterror"})
      /\ image \subseteq {opener}

AuthorsInv == /\ \A a, b \in image : a = b
              /\ \A a, b \in boot : a = b

(* error is set when nobody has the session, or the abort was overtaken.   *)
ErrorInv ==
    error /\ ~overtaken => \A t \in Task : has[t] = "mine" => pc[t] \notin {"rest", "write"}

OtaInv == /\ OtaTypeOK
          /\ PlacesInv
          /\ ~strayed => OwnerInv /\ LiveInv /\ AuthorsInv /\ ErrorInv
-----------------------------------------------------------------------------
(* ota_session_open: while open was clear nobody used the session, so who  *)
(* sets it is alone with it, and the session of ESP-IDF that he begins is  *)
(* the only one.                                                           *)
LEMMA OpeningPreserves ==
    ASSUME OtaInv, NEW t \in Task,
           Open(t) \/ RecordResource(t) \/ Begin(t) \/ BeginFails(t) \/ ClearError(t)
    PROVE  OtaInv'
<1> USE OtaAssumption
        DEF OtaInv, OtaTypeOK, PlacesInv, Where, OwnerInv, LiveInv, AuthorsInv, ErrorInv,
            Uses, Inside, Aborting
<1> DEFINE Session == OwnerInv /\ LiveInv /\ AuthorsInv /\ ErrorInv
<1>1. CASE Open(t)
  <2>1. OtaTypeOK' /\ PlacesInv'
    BY <1>1 DEF Open, At, Goes, esp
  <2>2. ASSUME ~strayed' PROVE Session'
    BY <1>1, <2>2 DEF Open, At, Goes, esp
  <2> QED
    BY <2>1, <2>2
<1>2. CASE RecordResource(t)
  <2>1. OtaTypeOK' /\ PlacesInv'
    BY <1>2 DEF RecordResource, At, Goes, esp, history
  <2>2. ASSUME ~strayed' PROVE Session'
    BY <1>2, <2>2 DEF RecordResource, At, Goes, esp, history
  <2> QED
    BY <2>1, <2>2
<1>3. CASE Begin(t)
  <2>1. OtaTypeOK' /\ PlacesInv'
    BY <1>3 DEF Begin, At, Goes, history
  <2>2. ASSUME ~strayed' PROVE Session'
    BY <1>3, <2>2 DEF Begin, At, Goes, history
  <2> QED
    BY <2>1, <2>2
<1>4. CASE BeginFails(t)
  <2>1. OtaTypeOK' /\ PlacesInv'
    BY <1>4 DEF BeginFails, At, Goes, esp, history
  <2>2. ASSUME ~strayed' PROVE Session'
    BY <1>4, <2>2 DEF BeginFails, At, Goes, esp, history
  <2> QED
    BY <2>1, <2>2
<1>5. CASE ClearError(t)
  <2>1. OtaTypeOK' /\ PlacesInv'
    BY <1>5 DEF ClearError, At, Goes, Returns, esp, history
  <2>2. ASSUME ~strayed' PROVE Session'
    BY <1>5, <2>2 DEF ClearError, At, Goes, Returns, esp, history
  <2> QED
    BY <2>1, <2>2
<1> QED
  BY <1>1, <1>2, <1>3, <1>4, <1>5

(* A call with a handle: while none is stale it is the opener's, and goes  *)
(* on only if error is clear.                                              *)
LEMMA CallPreserves ==
    ASSUME OtaInv, NEW t \in Task, NEW where \in {"write", "end"}, Call(t, where)
    PROVE  OtaInv'
<1> USE OtaAssumption
        DEF OtaInv, OtaTypeOK, PlacesInv, Where, OwnerInv, LiveInv, AuthorsInv, ErrorInv,
            Uses, Inside, Aborting
<1> DEFINE Session == OwnerInv /\ LiveInv /\ AuthorsInv /\ ErrorInv
<1>1. OtaTypeOK' /\ PlacesInv'
  BY DEF At, Goes, Returns, Fails, Strays, Call, esp
<1>2. ASSUME ~strayed' PROVE Session'
  <2>1. CASE error
    BY <1>2, <2>1 DEF At, Goes, Returns, Fails, Strays, Call, esp
  <2>2. CASE ~error
    <3>1. /\ has[t] = "mine" /\ pc' = [pc EXCEPT ![t] = where] /\ ~strayed
          /\ UNCHANGED <<open, error, handle, live, image, boot, has, resources, hades>>
          /\ UNCHANGED <<opener, overtaken>>
      BY <1>2, <2>2 DEF At, Goes, Strays, Call, esp
    <3>2. pc[t] = "rest" /\ Uses(t) /\ \A u \in Task \ {t} : pc'[u] = pc[u]
      BY <3>1 DEF Call, At
    <3>3. OwnerInv'
      <4> SUFFICES ASSUME NEW u \in Task, Uses(u)' PROVE open /\ opener = u
        BY <3>1
      <4>1. CASE u = t
        BY <3>1, <3>2, <4>1
      <4>2. CASE u # t
        BY <3>1, <3>2, <4>2
      <4> QED
        BY <4>1, <4>2
    <3>4. LiveInv'
      BY <3>1
    <3>5. AuthorsInv' /\ ErrorInv'
      BY <2>2, <3>1
    <3> QED
      BY <3>3, <3>4, <3>5
  <2> QED
    BY <2>1, <2>2
<1> QED
  BY <1>1, <1>2

(* ota_write: unless its handle was stale the caller is the opener, so a   *)
(* block joins only his own.                                               *)
LEMMA WritingPreserves ==
    ASSUME OtaInv, NEW t \in Task,
           Write(t) \/ WriteBlock(t) \/ WriteFails(t)
    PROVE  OtaInv'
<1> USE OtaAssumption
        DEF OtaInv, OtaTypeOK, PlacesInv, Where, OwnerInv, LiveInv, AuthorsInv, ErrorInv,
            Uses, Inside, Aborting
<1> DEFINE Session == OwnerInv /\ LiveInv /\ AuthorsInv /\ ErrorInv
<1>1. CASE Write(t)
  BY <1>1, CallPreserves DEF Write
<1>2. CASE WriteBlock(t)
  <2>1. OtaTypeOK' /\ PlacesInv'
    BY <1>2 DEF WriteBlock, At, Goes, Returns, history
  <2>2. ASSUME ~strayed' PROVE Session'
    BY <1>2, <2>2 DEF WriteBlock, At, Goes, Returns, history
  <2> QED
    BY <2>1, <2>2
<1>3. CASE WriteFails(t)
  <2>1. OtaTypeOK' /\ PlacesInv'
    BY <1>3 DEF WriteFails, At, Goes, esp, history
  <2>2. ASSUME ~strayed' PROVE Session'
    BY <1>3, <2>2 DEF WriteFails, At, Goes, esp, history
  <2> QED
    BY <2>1, <2>2
<1> QED
  BY <1>1, <1>2, <1>3

(* ota_session_commit: esp_ota_end leaves no session of ESP-IDF, and open  *)
(* is cleared last, when nothing else of the call is left to do.           *)
LEMMA CommittingPreserves ==
    ASSUME OtaInv, NEW t \in Task,
           Commit(t) \/ End(t) \/ SetBoot(t) \/ FreeResource(t) \/ Close(t)
    PROVE  OtaInv'
<1> USE OtaAssumption
        DEF OtaInv, OtaTypeOK, PlacesInv, Where, OwnerInv, LiveInv, AuthorsInv, ErrorInv,
            Uses, Inside, Aborting
<1> DEFINE Session == OwnerInv /\ LiveInv /\ AuthorsInv /\ ErrorInv
<1>1. CASE Commit(t)
  BY <1>1, CallPreserves DEF Commit
<1>2. CASE End(t)
  <2>1. OtaTypeOK' /\ PlacesInv'
    BY <1>2 DEF End, At, Goes, Returns, Fails, history
  <2>2. ASSUME ~strayed' PROVE Session'
    BY <1>2, <2>2 DEF End, At, Goes, Returns, Fails, history
  <2> QED
    BY <2>1, <2>2
<1>3. CASE SetBoot(t)
  <2>1. OtaTypeOK' /\ PlacesInv'
    BY <1>3 DEF SetBoot, At, Goes, Returns, Fails, history
  <2>2. ASSUME ~strayed' PROVE Session'
    BY <1>3, <2>2 DEF SetBoot, At, Goes, Returns, Fails, history
  <2> QED
    BY <2>1, <2>2
<1>4. CASE FreeResource(t)
  <2>1. OtaTypeOK' /\ PlacesInv'
    BY <1>4 DEF FreeResource, At, Goes, esp, history
  <2>2. ASSUME ~strayed' PROVE Session'
    BY <1>4, <2>2 DEF FreeResource, At, Goes, esp, history
  <2> QED
    BY <2>1, <2>2
<1>5. CASE Close(t)
  <2>1. OtaTypeOK' /\ PlacesInv'
    BY <1>5 DEF Close, At, Goes, Returns, Fails, esp, history
  <2>2. ASSUME ~strayed' PROVE Session'
    BY <1>5, <2>2 DEF Close, At, Goes, Returns, Fails, esp, history
  <2> QED
    BY <2>1, <2>2
<1> QED
  BY <1>1, <1>2, <1>3, <1>4, <1>5

(* ota_session_abort: setting error is the one thing left to do when open is *)
(* clear; a session opened by then is marked with it, and overtaken says so. *)
LEMMA AbortingPreserves ==
    ASSUME OtaInv, NEW t \in Task,
           Abort(t) \/ AbortBackend(t) \/ AbortFrees(t) \/ AbortOpens(t) \/ AbortErrs(t)
    PROVE  OtaInv'
<1> USE OtaAssumption
        DEF OtaInv, OtaTypeOK, PlacesInv, Where, OwnerInv, LiveInv, AuthorsInv, ErrorInv,
            Uses, Inside, Aborting
<1> DEFINE Session == OwnerInv /\ LiveInv /\ AuthorsInv /\ ErrorInv
<1>1. CASE Abort(t)
  <2>1. OtaTypeOK' /\ PlacesInv'
    BY <1>1 DEF Abort, At, Goes, Strays, esp
  <2>2. ASSUME ~strayed' PROVE Session'
    BY <1>1, <2>2, ZenonT(90) DEF Abort, At, Goes, Strays, esp
  <2> QED
    BY <2>1, <2>2
<1>2. CASE AbortBackend(t)
  <2>1. OtaTypeOK' /\ PlacesInv'
    BY <1>2 DEF AbortBackend, At, Goes, history
  <2>2. ASSUME ~strayed' PROVE Session'
    BY <1>2, <2>2 DEF AbortBackend, At, Goes, history
  <2> QED
    BY <2>1, <2>2
<1>3. CASE AbortFrees(t)
  <2>1. OtaTypeOK' /\ PlacesInv'
    BY <1>3 DEF AbortFrees, At, Goes, esp, history
  <2>2. ASSUME ~strayed' PROVE Session'
    BY <1>3, <2>2 DEF AbortFrees, At, Goes, esp, history
  <2> QED
    BY <2>1, <2>2
<1>4. CASE AbortOpens(t)
  <2>1. OtaTypeOK' /\ PlacesInv'
    BY <1>4 DEF AbortOpens, At, Goes, esp, history
  <2>2. ASSUME ~strayed' PROVE Session'
    BY <1>4, <2>2 DEF AbortOpens, At, Goes, esp, history
  <2> QED
    BY <2>1, <2>2
<1>5. CASE AbortErrs(t)
  <2>1. OtaTypeOK' /\ PlacesInv'
    BY <1>5 DEF AbortErrs, At, Goes, Returns, Fails, esp
  <2>2. ASSUME ~strayed' PROVE Session'
    BY <1>5, <2>2 DEF AbortErrs, At, Goes, Returns, Fails, esp
  <2> QED
    BY <2>1, <2>2
<1> QED
  BY <1>1, <1>2, <1>3, <1>4, <1>5

(* A task that is gone keeps nothing but the record of its session.        *)
LEMMA EndingPreserves ==
    ASSUME OtaInv, NEW t \in Task,
           Exit(t) \/ Kill(t)
    PROVE  OtaInv'
<1> USE OtaAssumption
        DEF OtaInv, OtaTypeOK, PlacesInv, Where, OwnerInv, LiveInv, AuthorsInv, ErrorInv,
            Uses, Inside, Aborting
<1> DEFINE Session == OwnerInv /\ LiveInv /\ AuthorsInv /\ ErrorInv
<1>1. CASE Exit(t)
  <2>1. OtaTypeOK' /\ PlacesInv'
    BY <1>1 DEF Exit, At, Goes, esp, history
  <2>2. ASSUME ~strayed' PROVE Session'
    BY <1>1, <2>2 DEF Exit, At, Goes, esp, history
  <2> QED
    BY <2>1, <2>2
<1>2. CASE Kill(t)
  <2>1. OtaTypeOK' /\ PlacesInv'
    BY <1>2 DEF Kill, Goes, esp
  <2>2. ASSUME ~strayed' PROVE Session'
    BY <1>2, <2>2 DEF Kill, Goes, esp
  <2> QED
    BY <2>1, <2>2
<1> QED
  BY <1>1, <1>2

(* task_thread_destroy: the dead task whose record Hades found was the     *)
(* opener, and none opens the session before he has cleared its flag.      *)
LEMMA HadesPreserves ==
    ASSUME OtaInv,
           \/ \E t \in Task : HadesTakes(t)
           \/ HadesAbortsBackend \/ HadesOpens \/ HadesErrs
    PROVE  OtaInv'
<1> USE OtaAssumption
        DEF OtaInv, OtaTypeOK, PlacesInv, Where, OwnerInv, LiveInv, AuthorsInv, ErrorInv,
            Uses, Inside, Aborting
<1> DEFINE Session == OwnerInv /\ LiveInv /\ AuthorsInv /\ ErrorInv
<1>1. ASSUME NEW t \in Task, HadesTakes(t) PROVE OtaInv'
  <2>1. OtaTypeOK' /\ PlacesInv'
    BY <1>1 DEF HadesTakes, At, Goes, HadesIs, esp, history
  <2>2. ASSUME ~strayed' PROVE Session'
    BY <1>1, <2>2 DEF HadesTakes, At, Goes, HadesIs, esp, history
  <2> QED
    BY <2>1, <2>2
<1>2. CASE HadesAbortsBackend
  <2>1. OtaTypeOK' /\ PlacesInv'
    BY <1>2 DEF HadesAbortsBackend, HadesIs, HadesGoes, history
  <2>2. ASSUME ~strayed' PROVE Session'
    BY <1>2, <2>2 DEF HadesAbortsBackend, HadesIs, HadesGoes, history
  <2> QED
    BY <2>1, <2>2
<1>3. CASE HadesOpens
  <2>1. OtaTypeOK' /\ PlacesInv'
    BY <1>3 DEF HadesOpens, HadesIs, HadesGoes, esp, history
  <2>2. ASSUME ~strayed' PROVE Session'
    BY <1>3, <2>2 DEF HadesOpens, HadesIs, HadesGoes, esp, history
  <2> QED
    BY <2>1, <2>2
<1>4. CASE HadesErrs
  <2>1. OtaTypeOK' /\ PlacesInv'
    BY <1>4 DEF HadesErrs, Goes, HadesIs, Rest, esp
  <2>2. ASSUME ~strayed' PROVE Session'
    BY <1>4, <2>2 DEF HadesErrs, Goes, HadesIs, Rest, esp
  <2> QED
    BY <2>1, <2>2
<1> QED
  BY <1>1, <1>2, <1>3, <1>4
-----------------------------------------------------------------------------
(* Whatever the steps of tasks and Hades, and wherever tasks are killed.   *)
THEOREM OtaInvariance == Spec => []OtaInv
<1>1. Init => OtaInv
  <2>1. Rest.pc = "rest" /\ Rest \in [pc : {"rest"}, task : Task]
    BY OtaAssumption DEF Rest
  <2>2. Init => PlacesInv
    BY <2>1 DEF Init, PlacesInv, Where
  <2>3. Init => OtaTypeOK
    <3> SUFFICES ASSUME Init PROVE OtaTypeOK
      OBVIOUS
    <3>1. hades.task \in Task /\ hades.pc = "rest" /\ opener \in Task
      BY <2>1 DEF Init
    <3>2. begun \in 0..MaxSessions /\ handle \in 0..begun /\ kills \in 0..MaxKills
      BY OtaAssumption DEF Init
    <3> QED
      BY <3>1, <3>2 DEF Init, OtaTypeOK
  <2> QED
    BY <2>1, <2>2, <2>3 DEF Init, OtaInv, OwnerInv, LiveInv, AuthorsInv, ErrorInv,
                            Uses, Inside, Aborting
<1>2. OtaInv /\ [Next]_vars => OtaInv'
  <2> SUFFICES ASSUME OtaInv, [Next]_vars
               PROVE  OtaInv'
    OBVIOUS
  <2>1. CASE HadesStep
    BY <2>1, HadesPreserves DEF HadesStep
  <2>2. ASSUME NEW t \in Task, Open(t) \/ Write(t) \/ Commit(t) \/ Abort(t) \/ CallStep(t)
        PROVE  OtaInv'
    BY <2>2, OpeningPreserves, WritingPreserves, CommittingPreserves, AbortingPreserves
       DEF CallStep
  <2>3. ASSUME NEW t \in Task, Exit(t) \/ Kill(t)
        PROVE  OtaInv'
    BY <2>3, EndingPreserves
  <2>4. CASE UNCHANGED vars
    BY <2>4 DEF vars, esp, history, OtaInv, OtaTypeOK, PlacesInv, OwnerInv, LiveInv, AuthorsInv,
                ErrorInv, Uses, Aborting
  <2> QED
    BY <2>1, <2>2, <2>3, <2>4 DEF Next
<1> QED
  BY <1>1, <1>2, PTL DEF Spec

(* A set all of whose members are equal has at most one.                   *)
LEMMA AtMostOne ==
    ASSUME NEW S, \A a, b \in S : a = b
    PROVE  Cardinality(S) <= 1
<1>1. CASE S = {}
  BY <1>1, FS_EmptySet
<1>2. CASE S # {}
  <2>1. PICK a : a \in S
    BY <1>2
  <2>2. S = {a}
    BY <2>1
  <2> QED
    BY <2>2, FS_Singleton
<1> QED
  BY <1>1, <1>2

(* open and the global handle: while no stale handle is used, ESP-IDF has  *)
(* one session, whoever has its handle opened it, and the blocks in the    *)
(* partition, as those to be booted, are of one task.                      *)
THEOREM OneSession == Spec => []OneSessionAtATime
<1>1. OtaInv => OneSessionAtATime
  <2> SUFFICES ASSUME OtaInv, ~strayed
               PROVE  /\ Cardinality(live) <= 1
                      /\ \A t \in Task : has[t] = "mine" /\ pc[t] = "rest" => open /\ opener = t
                      /\ Cardinality(image) <= 1 /\ Cardinality(boot) <= 1
    BY DEF OneSessionAtATime, OtaInv
  <2>1. \A a, b \in live : a = b
    BY DEF OtaInv, LiveInv
  <2>2. (\A a, b \in image : a = b) /\ (\A a, b \in boot : a = b)
    BY DEF OtaInv, AuthorsInv
  <2>3. \A t \in Task : has[t] = "mine" /\ pc[t] = "rest" => open /\ opener = t
    BY DEF OtaInv, OwnerInv, Uses
  <2> QED
    BY <2>1, <2>2, <2>3, AtMostOne
<1> QED
  BY <1>1, OtaInvariance, PTL

(* error: only an abort overtaken between clearing open and setting error, *)
(* or a stale handle, makes the calls of a fresh session fail.             *)
THEOREM FreshSessionsDoWork == Spec => []FreshSessionsWork
<1>1. OtaInv => FreshSessionsWork
  BY DEF OtaInv, ErrorInv, FreshSessionsWork
<1> QED
  BY <1>1, OtaInvariance, PTL
=============================================================================
