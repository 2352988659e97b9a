-------------------------- MODULE CompositorProofs --------------------------
(***************************************************************************)
(* Proofs about the compositor, its windows and the windows of the dead,   *)
(* for any number of tasks, windows and kills, and queues of any length.   *)
(***************************************************************************)
EXTENDS Compositor, FiniteSetTheorems, SequenceTheorems, WellFoundedInduction, TLAPS

(* s goes around the ring, along `next'.                                   *)
Around(s) ==
    LET n == cur_num_windows IN
    /\ s \in [1..n -> linked]
    /\ \A w \in linked : \E i \in 1..n : s[i] = w
    /\ \A i, j \in 1..n : s[i] = s[j] => i = j
    /\ \A i \in 1..n : /\ next[s[i]] = IF i < n THEN s[i + 1] ELSE s[1]
                       /\ prev[s[i]] = IF i > 1 THEN s[i - 1] ELSE s[n]

(* The links of the windows in use form one ring: that they are inverse    *)
(* would not do, two windows that each lead to themselves have such links. *)
OneRing ==
    /\ RingTypeOK
    /\ \E s \in [1..cur_num_windows -> linked] : Around(s)
    /\ window_stack \in linked \/ (window_stack = NoWindow /\ linked = {})

RingInv == OneRing /\ (compositor.pc \in {"render", "draw"} => compositor.window \in linked)

(* A window is a resource of one process, from its making until            *)
(* window_destroy returns; the window names its process no longer.         *)
OwnersInv ==
    /\ \A t, u \in Task : \A w \in recorded[t] \cap recorded[u] : t = u
    /\ \A t \in Task : \A w \in recorded[t] : life[w] # "unmade"
    /\ \A w \in Window, t \in Task : task_info[w] = t => w \in recorded[t]
    /\ \A t \in Task : app[t].pc \in {"send", "wait"} =>
         /\ app[t].window \in recorded[t]
         /\ app[t].command = "destroy" => task_info[app[t].window] = NoTask

(* A dead process is handled by Hades once, and then named by no window.   *)
Dead(t) == tcb[t] # "live"
HadesHas(t) == hades.pc # "wait" /\ hades.task = t

DeathInv ==
    /\ \A i \in DOMAIN hades_queue : tcb[hades_queue[i]] = "freed" /\ ~HadesHas(hades_queue[i])
    /\ \A i, j \in DOMAIN hades_queue : hades_queue[i] = hades_queue[j] => i = j
    /\ hades.pc # "wait" => /\ hades.task \in Task /\ tcb[hades.task] = "freed"
                            /\ hades.todo \subseteq recorded[hades.task]
    /\ hades.pc = "send" => hades.window \in recorded[hades.task] \ hades.todo
    /\ \A w \in Window, t \in Task : task_info[w] = t =>
         tcb[t] # "gone" /\ (HadesHas(t) => w \in hades.todo)

(* Hades has sent the destruction of a window of t.                        *)
Taken(t, w) ==
    \/ tcb[t] = "gone"
    \/ HadesHas(t) /\ w \notin hades.todo /\ ~(hades.pc = "send" /\ hades.window = w)

(* A task has at most one command in the queue, that for which it waits;   *)
(* Hades' commands are destructions, of windows that he has taken.         *)
Queued == DOMAIN compositor_queue
MessagesInv ==
    /\ \A t \in Task : notified[t] => app[t].pc = "wait"
    /\ \A i \in Queued : LET m == compositor_queue[i] IN
         IF m.caller # NoTask
         THEN /\ app[m.caller].pc = "wait" /\ ~notified[m.caller]
              /\ app[m.caller].command = m.command /\ app[m.caller].window = m.window
              /\ \A j \in Queued : compositor_queue[j].caller = m.caller => i = j
         ELSE m.command = "destroy" /\ \E t \in Task : m.window \in recorded[t] /\ Taken(t, m.window)

(* A window enters the ring once.                                          *)
EnterInv ==
    /\ \A w \in linked : life[w] = "made"
    /\ \A t \in Task : app[t].pc = "send" /\ app[t].command = "create" => app[t].window \notin linked
    /\ \A i \in Queued : compositor_queue[i].command = "create" => compositor_queue[i].window \notin linked

(* And it is freed when nobody will name it any more.                      *)
FreedInv ==
    \A t \in Task : \A w \in recorded[t] \ Interrupted : life[w] = "freed" =>
      \/ Taken(t, w)
      \/ app[t].pc = "wait" /\ app[t].command = "destroy" /\ app[t].window = w /\ notified[t]

RestInv == OwnersInv /\ DeathInv /\ MessagesInv /\ EnterInv /\ FreedInv /\ CommandsFindTheirWindow
CompositorInv == CompositorTypeOK /\ RingInv /\ RestInv
-----------------------------------------------------------------------------
(* The ring.  It can be read from any of its windows.                      *)
LEMMA StartAnywhere ==
    ASSUME OneRing, NEW w \in linked
    PROVE  /\ cur_num_windows \in Nat \ {0}
           /\ \E s \in [1..cur_num_windows -> linked] : Around(s) /\ s[1] = w
<1>1. PICK n \in Nat : n = cur_num_windows
  BY DEF OneRing, RingTypeOK
<1>2. PICK r \in [1..n -> linked] : Around(r)
  BY <1>1 DEF OneRing
<1>3. PICK k \in 1..n : r[k] = w
  BY <1>1, <1>2 DEF Around
<1> DEFINE At1(i) == IF i + k <= n + 1 THEN i + k - 1 ELSE i + k - 1 - n
           s == [i \in 1..n |-> r[At1(i)]]
<1>4. /\ \A i \in 1..n : At1(i) \in 1..n
      /\ \A i, j \in 1..n : At1(i) = At1(j) => i = j
      /\ At1(1) = k
      /\ \A i \in 1..n : i < n => At1(i + 1) = IF At1(i) < n THEN At1(i) + 1 ELSE 1
      /\ \A i \in 1..n : i > 1 => At1(i - 1) = IF At1(i) > 1 THEN At1(i) - 1 ELSE n
      /\ At1(1) = IF At1(n) < n THEN At1(n) + 1 ELSE 1
      /\ At1(n) = IF At1(1) > 1 THEN At1(1) - 1 ELSE n
  BY <1>3
<1>5. \A j \in 1..n : \E i \in 1..n : At1(i) = j
  <2> TAKE j \in 1..n
  <2>1. CASE j >= k
    <3>1. j - k + 1 \in 1..n /\ At1(j - k + 1) = j
      BY <2>1, <1>3
    <3> QED
      BY <3>1
  <2>2. CASE j < k
    <3>1. j + n + 1 - k \in 1..n /\ At1(j + n + 1 - k) = j
      BY <2>2, <1>3
    <3> QED
      BY <3>1
  <2> QED
    BY <2>1, <2>2, <1>3
<1> HIDE DEF At1
<1>6. s \in [1..n -> linked] /\ s[1] = w /\ \A i \in 1..n : s[i] = r[At1(i)]
  BY <1>3, <1>4, SMTT(30)
<1> HIDE DEF s
<1>7. ASSUME NEW v \in linked
      PROVE  \E i \in 1..n : s[i] = v
  <2>1. PICK j \in 1..n : r[j] = v
    BY <1>1, <1>2 DEF Around
  <2>2. PICK i \in 1..n : At1(i) = j
    BY <1>5
  <2> QED
    BY <2>1, <2>2, <1>6
<1>8. ASSUME NEW i \in 1..n, NEW j \in 1..n, s[i] = s[j]
      PROVE  i = j
  <2>1. r[At1(i)] = r[At1(j)]
    BY <1>6, <1>8
  <2>2. At1(i) = At1(j)
    BY <2>1, <1>1, <1>2, <1>4 DEF Around
  <2> QED
    BY <2>2, <1>4
<1>9. ASSUME NEW i \in 1..n
      PROVE  /\ next[s[i]] = IF i < n THEN s[i + 1] ELSE s[1]
             /\ prev[s[i]] = IF i > 1 THEN s[i - 1] ELSE s[n]
  <2>1. n \in 1..n /\ 1 \in 1..n /\ (i < n => i + 1 \in 1..n) /\ (i > 1 => i - 1 \in 1..n)
    BY <1>3
  <2>2. /\ next[r[At1(i)]] = IF At1(i) < n THEN r[At1(i) + 1] ELSE r[1]
        /\ prev[r[At1(i)]] = IF At1(i) > 1 THEN r[At1(i) - 1] ELSE r[n]
    BY <1>1, <1>2, <1>4 DEF Around
  <2>3. next[s[i]] = IF i < n THEN s[i + 1] ELSE s[1]
    <3>1. CASE i < n
      BY <3>1, <2>1, <2>2, <1>4, <1>6
    <3>2. CASE ~(i < n)
      <4>1. i = n
        BY <3>2
      <4> QED
        BY <4>1, <2>1, <2>2, <1>4, <1>6, ZenonT(60)
    <3> QED
      BY <3>1, <3>2
  <2>4. prev[s[i]] = IF i > 1 THEN s[i - 1] ELSE s[n]
    <3>1. CASE i > 1
      BY <3>1, <2>1, <2>2, <1>4, <1>6
    <3>2. CASE ~(i > 1)
      <4>1. i = 1
        BY <3>2
      <4> QED
        BY <4>1, <2>1, <2>2, <1>4, <1>6, SMTT(20)
    <3> QED
      BY <3>1, <3>2
  <2> QED
    BY <2>3, <2>4
<1>10. Around(s)
  BY <1>1, <1>6, <1>7, <1>8, <1>9 DEF Around
<1> QED
  BY <1>1, <1>3, <1>6, <1>10

(* A ring is what RingIsSound says of it.                                  *)
LEMMA RingSound ==
    ASSUME OneRing
    PROVE  /\ RingIsSound
           /\ \A w \in linked : next[w] \in linked /\ prev[w] \in linked /\ HasLinks(w)
<1>1. PICK n \in Nat : n = cur_num_windows
  BY DEF OneRing, RingTypeOK
<1>2. PICK s \in [1..n -> linked] : Around(s)
  BY <1>1 DEF OneRing
<1>3. linked \subseteq Window /\ NoWindow \notin Window
  BY DEF OneRing, RingTypeOK, Window, NoWindow
<1>4. Cardinality(linked) = n
  <2>1. s \in Bijection(1..n, linked)
    BY <1>1, <1>2 DEF Around, Bijection, Injection, Surjection, IsInjective
  <2> QED
    BY <2>1, FS_CountingElements DEF ExistsBijection
<1>5. ASSUME NEW w \in linked
      PROVE  /\ next[w] \in linked /\ prev[w] \in linked
             /\ prev[next[w]] = w /\ next[prev[w]] = w
  <2>1. PICK i \in 1..n : s[i] = w
    BY <1>1, <1>2 DEF Around
  <2>2. n \in 1..n /\ 1 \in 1..n /\ (i < n => i + 1 \in 1..n) /\ (i > 1 => i - 1 \in 1..n)
        /\ (i + 1) - 1 = i /\ (i - 1) + 1 = i /\ (i >= n => i = n) /\ (i <= 1 => i = 1) /\ (~(i < n) => i = n) /\ (~(i > 1) => i = 1)
    OBVIOUS
  <2>3. \A j \in 1..n : /\ next[s[j]] = IF j < n THEN s[j + 1] ELSE s[1]
                        /\ prev[s[j]] = IF j > 1 THEN s[j - 1] ELSE s[n]
    BY <1>1, <1>2 DEF Around
  <2>4. next[w] \in linked /\ prev[next[w]] = w
    <3>1. CASE i < n
      BY <3>1, <2>1, <2>2, <2>3
    <3>2. CASE ~(i < n)
      BY <3>2, <2>1, <2>2, <2>3
    <3> QED
      BY <3>1, <3>2
  <2>5. prev[w] \in linked /\ next[prev[w]] = w
    <3>1. CASE i > 1
      BY <3>1, <2>1, <2>2, <2>3
    <3>2. CASE ~(i > 1)
      BY <3>2, <2>1, <2>2, <2>3
    <3> QED
      BY <3>1, <3>2
  <2> QED
    BY <2>4, <2>5
<1> QED
  BY <1>1, <1>3, <1>4, <1>5 DEF RingIsSound, OneRing, HasLinks

(* push_window puts a new window between the focus and the one before it.  *)
LEMMA PushKeepsRing ==
    ASSUME OneRing, NEW w \in Window \ linked, PushWindow(w)
    PROVE  OneRing' /\ linked' = linked \cup {w}
<1>1. PICK n \in Nat : n = cur_num_windows
  BY DEF OneRing, RingTypeOK
<1>2. /\ next \in [Window -> Window \cup {NoWindow}] /\ prev \in [Window -> Window \cup {NoWindow}]
      /\ linked \subseteq Window /\ NoWindow \notin Window
      /\ window_stack' = w /\ linked' = linked \cup {w} /\ cur_num_windows' = n + 1
  BY <1>1 DEF OneRing, RingTypeOK, PushWindow, Window, NoWindow
<1>3. CASE window_stack = NoWindow
  <2>1. linked = {} /\ n = 0
    <3>1. linked = {}
      BY <1>2, <1>3 DEF OneRing
    <3>2. PICK s \in [1..n -> {}] : TRUE
      BY <1>1, <3>1 DEF OneRing
    <3>3. n >= 1 => 1 \in 1..n /\ s[1] \in {}
      BY <3>2
    <3> QED
      BY <3>1, <3>3
  <2>2. next' = [next EXCEPT ![w] = w] /\ prev' = [prev EXCEPT ![w] = w]
    BY <1>3 DEF PushWindow
  <2> DEFINE s == [i \in 1..1 |-> w]
  <2>3. s \in [1..1 -> {w}] /\ Around(s)'
    BY <1>2, <2>1, <2>2 DEF Around
  <2>4. RingTypeOK'
    BY <1>2, <2>1, <2>2 DEF RingTypeOK
  <2> HIDE DEF s
  <2> QED
    BY <1>2, <2>1, <2>3, <2>4 DEF OneRing
<1>4. CASE window_stack # NoWindow
  <2>1. window_stack \in linked
    BY <1>4 DEF OneRing
  <2>2. n >= 1 /\ \E r \in [1..n -> linked] : Around(r) /\ r[1] = window_stack
    BY <1>1, <2>1, StartAnywhere
  <2>3. PICK r \in [1..n -> linked] : Around(r) /\ r[1] = window_stack
    BY <2>2
  <2>4. /\ prev[window_stack] = r[n] /\ 1 \in 1..n /\ n \in 1..n
        /\ \A v \in linked : \E i \in 1..n : r[i] = v
        /\ \A i, j \in 1..n : r[i] = r[j] => i = j
        /\ \A i \in 1..n : /\ next[r[i]] = IF i < n THEN r[i + 1] ELSE r[1]
                           /\ prev[r[i]] = IF i > 1 THEN r[i - 1] ELSE r[n]
    BY <1>1, <2>2, <2>3 DEF Around
  <2>5. /\ next' = [next EXCEPT ![w] = r[1], ![r[n]] = w]
        /\ prev' = [prev EXCEPT ![w] = r[n], ![r[1]] = w]
    BY <1>4, <2>3, <2>4 DEF PushWindow
  <2> DEFINE s == [i \in 1..(n + 1) |-> IF i = 1 THEN w ELSE r[i - 1]]
  <2>6. /\ s \in [1..(n + 1) -> linked \cup {w}] /\ s[1] = w /\ s[n + 1] = r[n] /\ s[2] = r[1]
        /\ \A i \in 1..n : s[i + 1] = r[i] /\ i + 1 \in 1..(n + 1) /\ r[i] # w
        /\ \A i \in 1..(n + 1) : i = 1 \/ (i - 1 \in 1..n /\ s[i] = r[i - 1])
    BY <2>2
  <2> HIDE DEF s
  <2>7. \A v \in linked \cup {w} : \E i \in 1..(n + 1) : s[i] = v
    <3> TAKE v \in linked \cup {w}
    <3>1. CASE v = w
      BY <3>1, <2>6
    <3>2. CASE v # w
      <4>1. PICK i \in 1..n : r[i] = v
        BY <3>2, <2>4
      <4> QED
        BY <4>1, <2>6
    <3> QED
      BY <3>1, <3>2
  <2>8. \A i, j \in 1..(n + 1) : s[i] = s[j] => i = j
    <3> TAKE i, j \in 1..(n + 1)
    <3>1. CASE i = 1 \/ j = 1
      BY <3>1, <2>6
    <3>2. CASE i # 1 /\ j # 1
      BY <3>2, <2>4, <2>6
    <3> QED
      BY <3>1, <3>2
  <2>9. ASSUME NEW i \in 1..(n + 1)
        PROVE  /\ next'[s[i]] = IF i < n + 1 THEN s[i + 1] ELSE s[1]
               /\ prev'[s[i]] = IF i > 1 THEN s[i - 1] ELSE s[n + 1]
    <3>1. /\ next'[w] = r[1] /\ next'[r[n]] = w /\ prev'[w] = r[n] /\ prev'[r[1]] = w
          /\ \A j \in 1..n : /\ j # n => next'[r[j]] = next[r[j]]
                             /\ j # 1 => prev'[r[j]] = prev[r[j]]
      BY <1>2, <2>4, <2>5, <2>6
    <3>2. CASE i = 1
      BY <3>1, <3>2, <2>2, <2>6
    <3>3. CASE i # 1
      <4>1. PICK j \in 1..n : i = j + 1 /\ s[i] = r[j]
        BY <3>3, <2>6
      <4>2. next'[s[i]] = IF i < n + 1 THEN s[i + 1] ELSE s[1]
        <5>1. CASE j = n
          BY <4>1, <5>1, <3>1, <2>6
        <5>2. CASE j # n
          <6>1. j + 1 \in 1..n /\ j < n /\ s[(j + 1) + 1] = r[j + 1] /\ i < n + 1
            BY <5>2, <4>1, <2>6
          <6> QED
            BY <4>1, <5>2, <6>1, <3>1, <2>4
        <5> QED
          BY <5>1, <5>2
      <4>3. prev'[s[i]] = IF i > 1 THEN s[i - 1] ELSE s[n + 1]
        <5>1. CASE j = 1
          BY <4>1, <5>1, <3>1, <2>6
        <5>2. CASE j # 1
          <6>1. j - 1 \in 1..n /\ j > 1 /\ s[j] = r[j - 1] /\ i > 1 /\ i - 1 = j
            BY <5>2, <4>1, <2>6
          <6> QED
            BY <4>1, <5>2, <6>1, <3>1, <2>4
        <5> QED
          BY <5>1, <5>2
      <4> QED
        BY <4>2, <4>3
    <3> QED
      BY <3>2, <3>3
  <2>10. Around(s)'
    BY <1>2, <2>6, <2>7, <2>8, <2>9 DEF Around
  <2>11. RingTypeOK'
    BY <1>2, <2>1, <2>4, <2>5, SMTT(30) DEF RingTypeOK
  <2> QED
    BY <1>2, <2>6, <2>10, <2>11 DEF OneRing
<1> QED
  BY <1>3, <1>4

(* remove_window takes one window out, whichever it is.                    *)
LEMMA RemoveKeepsRing ==
    ASSUME OneRing, NEW w \in linked, NEW cleared \in BOOLEAN, RemoveWindow(w, cleared)
    PROVE  OneRing' /\ linked' = linked \ {w}
<1>1. PICK n \in Nat \ {0} : n = cur_num_windows
  BY StartAnywhere
<1>2. PICK r \in [1..n -> linked] : Around(r) /\ r[1] = w
  BY <1>1, StartAnywhere
<1>3. /\ next \in [Window -> Window \cup {NoWindow}] /\ prev \in [Window -> Window \cup {NoWindow}]
      /\ linked \subseteq Window /\ NoWindow \notin Window
  BY DEF OneRing, RingTypeOK, Window, NoWindow
<1>4. /\ 1 \in 1..n /\ n \in 1..n /\ n - 1 \in Nat
      /\ \A v \in linked : \E i \in 1..n : r[i] = v
      /\ \A i, j \in 1..n : r[i] = r[j] => i = j
      /\ \A i \in 1..n : /\ next[r[i]] = IF i < n THEN r[i + 1] ELSE r[1]
                         /\ prev[r[i]] = IF i > 1 THEN r[i - 1] ELSE r[n]
  BY <1>1, <1>2 DEF Around
<1> DEFINE after == IF 1 < n THEN r[2] ELSE r[1]
<1>5. next[w] = after /\ prev[w] = r[n] /\ HasLinks(w) /\ after \in linked /\ r[n] \in linked
  <2>1. next[w] = after
    BY <1>2, <1>4
  <2>2. prev[w] = r[n]
    BY <1>2, <1>4
  <2>3. after \in linked /\ r[n] \in linked
    BY <1>4
  <2> QED
    BY <2>1, <2>2, <2>3, <1>3 DEF HasLinks
<1>6. /\ window_stack' = IF r[n] = w THEN NoWindow ELSE after
      /\ next' = [next EXCEPT ![r[n]] = after, ![w] = IF cleared THEN NoWindow ELSE @]
      /\ prev' = [prev EXCEPT ![after] = r[n], ![w] = IF cleared THEN NoWindow ELSE @]
      /\ cur_num_windows' = n - 1
      /\ linked' = linked \ {w}
  BY <1>1, <1>5 DEF RemoveWindow
<1>7. RingTypeOK'
  <2>1. /\ next' \in [Window -> Window \cup {NoWindow}]
        /\ prev' \in [Window -> Window \cup {NoWindow}]
    BY <1>3, <1>5, <1>6
  <2>2. window_stack' \in Window \cup {NoWindow}
    BY <1>3, <1>5, <1>6
  <2> QED
    BY <2>1, <2>2, <1>3, <1>4, <1>6 DEF RingTypeOK
<1>8. CASE n = 1
  <2>1. linked' = {} /\ window_stack' = NoWindow /\ cur_num_windows' = 0
    BY <1>2, <1>4, <1>6, <1>8
  <2> DEFINE s == [i \in 1..0 |-> w]
  <2>2. s \in [1..0 -> {}]
    OBVIOUS
  <2> HIDE DEF s
  <2>3. Around(s)'
    BY <2>1, <2>2 DEF Around
  <2>4. s \in [1..cur_num_windows' -> linked']
    BY <2>1, <2>2
  <2>5. (window_stack \in linked \/ (window_stack = NoWindow /\ linked = {}))'
    BY <2>1
  <2>6. (\E q \in [1..cur_num_windows -> linked] : Around(q))'
    BY <2>3, <2>4
  <2> QED
    BY <1>6, <1>7, <2>5, <2>6 DEF OneRing
<1>9. CASE n # 1
  <2> DEFINE m == n - 1
             s == [i \in 1..m |-> r[i + 1]]
  <2>1. /\ m \in Nat /\ n > 1 /\ n = m + 1 /\ 1 \in 1..m /\ m \in 1..m
        /\ \A i \in 1..m : i + 1 \in 1..n /\ i + 1 # 1
    BY <1>4, <1>9
  <2>2. \A i \in 1..n : i # 1 => i - 1 \in 1..m /\ (i - 1) + 1 = i
    BY <2>1
  <2>3. \A i \in 1..m : s[i] = r[i + 1] /\ s[i] # w /\ s[i] \in linked
    BY <1>2, <1>4, <2>1
  <2>4. s \in [1..m -> linked \ {w}]
    BY <2>3
  <2> HIDE DEF s
  <2>5. r[n] = s[m] /\ after = s[1] /\ r[n] # w
    BY <2>1, <2>3
  <2>6. window_stack' = after /\ after # w
    BY <1>6, <2>1, <2>3, <2>5
  <2>7. ASSUME NEW v \in linked \ {w}
        PROVE  \E i \in 1..m : s[i] = v
    <3>1. PICK i \in 1..n : r[i] = v
      BY <1>4
    <3>2. i # 1
      BY <1>2, <3>1
    <3> QED
      BY <3>1, <3>2, <2>2, <2>3
  <2>8. \A i, j \in 1..m : s[i] = s[j] => i = j
    <3> TAKE i, j \in 1..m
    <3> HAVE s[i] = s[j]
    <3>1. i + 1 = j + 1
      BY <1>4, <2>1, <2>3
    <3> QED
      BY <3>1
  <2>9. /\ next'[s[m]] = s[1] /\ prev'[s[1]] = s[m]
        /\ \A i \in 1..m : /\ i # m => next'[s[i]] = next[s[i]]
                           /\ i # 1 => prev'[s[i]] = prev[s[i]]
    <3>1. \A v \in linked \ {w} : /\ next'[v] = IF v = s[m] THEN s[1] ELSE next[v]
                                  /\ prev'[v] = IF v = s[1] THEN s[m] ELSE prev[v]
      BY <1>3, <1>6, <2>5
    <3> QED
      BY <3>1, <2>1, <2>4, <2>8
  <2>10. ASSUME NEW i \in 1..m
         PROVE  /\ next'[s[i]] = IF i < m THEN s[i + 1] ELSE s[1]
                /\ prev'[s[i]] = IF i > 1 THEN s[i - 1] ELSE s[m]
    <3>2. ASSUME i # m
          PROVE  next'[s[i]] = s[i + 1] /\ i < m
      <4>1. i + 1 \in 1..m /\ i < m /\ i + 1 < n
        BY <3>2, <2>1
      <4>2. next[r[i + 1]] = r[(i + 1) + 1]
        BY <4>1, <2>1, <1>4
      <4> QED
        BY <4>1, <4>2, <3>2, <2>3, <2>9
    <3>3. ASSUME i # 1
          PROVE  prev'[s[i]] = s[i - 1] /\ i > 1
      <4>1. i - 1 \in 1..m /\ i > 1 /\ (i - 1) + 1 = i /\ (i + 1) - 1 = i /\ i + 1 > 1
        BY <3>3, <2>1
      <4>2. prev[r[i + 1]] = r[(i + 1) - 1]
        BY <4>1, <2>1, <1>4
      <4>3. s[i - 1] = r[i]
        BY <4>1, <2>3
      <4> QED
        BY <4>1, <4>2, <4>3, <3>3, <2>3, <2>9
    <3>4. i = m => ~(i < m)
      BY <2>1
    <3>5. i = 1 => ~(i > 1) /\ prev'[s[i]] = s[m]
      BY <2>9
    <3>6. i = m => next'[s[i]] = s[1]
      BY <2>9
    <3> QED
      BY <3>2, <3>3, <3>4, <3>5, <3>6
  <2>11. cur_num_windows' = m /\ linked' = linked \ {w}
    BY <1>6
  <2> HIDE DEF m, after
  <2>12. Around(s)'
    BY <2>4, <2>7, <2>8, <2>10, <2>11 DEF Around
  <2>13. window_stack' \in linked'
    BY <1>5, <2>6, <2>11
  <2> QED
    BY <1>7, <2>4, <2>11, <2>12, <2>13 DEF OneRing
<1> QED
  BY <1>6, <1>8, <1>9

(* ALT-TAB only moves the focus.                                           *)
LEMMA SwitchKeepsRing ==
    ASSUME OneRing, SwitchWindow
    PROVE  OneRing' /\ UNCHANGED linked
<1>1. UNCHANGED <<next, prev, cur_num_windows, linked>> /\ window_stack' \in linked
  BY RingSound DEF SwitchWindow, OneRing
<1>2. PICK s \in [1..cur_num_windows -> linked] : Around(s)
  BY DEF OneRing
<1>3. Around(s)'
  BY <1>1, <1>2 DEF Around
<1>4. RingTypeOK'
  BY <1>1 DEF OneRing, RingTypeOK
<1> QED
  BY <1>1, <1>2, <1>3, <1>4 DEF OneRing

(* What leaves the links alone.                                            *)
LEMMA SameRing ==
    ASSUME OneRing, UNCHANGED ringVars
    PROVE  OneRing' /\ UNCHANGED linked
<1>1. UNCHANGED <<window_stack, next, prev, cur_num_windows, linked>>
  BY DEF ringVars
<1>2. PICK s \in [1..cur_num_windows -> linked] : Around(s)
  BY DEF OneRing
<1>3. Around(s)'
  BY <1>1, <1>2 DEF Around
<1> QED
  BY <1>1, <1>2, <1>3 DEF OneRing, RingTypeOK

(* The queue of commands, when one is sent or executed.                    *)
LEMMA CommandSent ==
    ASSUME CompositorTypeOK, NEW m \in Message, QueueHasRoom, compositor_queue' = Append(compositor_queue, m)
    PROVE  /\ compositor_queue' \in Seq(Message) /\ Len(compositor_queue') <= QueueLen
           /\ Len(compositor_queue) \in Nat /\ Len(compositor_queue') = Len(compositor_queue) + 1
           /\ Queued = 1..Len(compositor_queue) /\ Queued' = 1..(Len(compositor_queue) + 1)
           /\ \A i \in Queued' : \/ i \in Queued /\ compositor_queue'[i] = compositor_queue[i]
                                 \/ i = Len(compositor_queue) + 1 /\ compositor_queue'[i] = m
<1>1. compositor_queue \in Seq(Message) /\ Len(compositor_queue) < QueueLen /\ QueueLen \in Nat
  BY CompositorAssumption DEF CompositorTypeOK, QueueHasRoom
<1> QED
  BY <1>1 DEF Queued

LEMMA CommandTaken ==
    ASSUME CompositorTypeOK, compositor_queue # <<>>, compositor_queue' = Tail(compositor_queue)
    PROVE  /\ compositor_queue' \in Seq(Message) /\ Len(compositor_queue') <= QueueLen
           /\ Len(compositor_queue) \in Nat /\ Len(compositor_queue') = Len(compositor_queue) - 1
           /\ Queued = 1..Len(compositor_queue) /\ Queued' = 1..(Len(compositor_queue) - 1)
           /\ Head(compositor_queue) = compositor_queue[1] /\ 1 \in Queued
           /\ \A i \in Queued' : i + 1 \in Queued /\ compositor_queue'[i] = compositor_queue[i + 1]
<1>1. compositor_queue \in Seq(Message) /\ Len(compositor_queue) <= QueueLen /\ QueueLen \in Nat
  BY CompositorAssumption DEF CompositorTypeOK
<1> QED
  BY <1>1 DEF Queued

LEMMA QueueFacts ==
    ASSUME CompositorTypeOK
    PROVE  /\ Len(compositor_queue) \in Nat /\ Queued = 1..Len(compositor_queue)
           /\ \A i \in Queued : compositor_queue[i] \in Message
<1>1. compositor_queue \in Seq(Message)
  BY DEF CompositorTypeOK
<1> QED
  BY <1>1 DEF Queued

(* The window of a command has a process, whose command it is unless Hades *)
(* sent it.                                                                *)
LEMMA QueuedWindow ==
    ASSUME CompositorTypeOK, OwnersInv, MessagesInv, NEW i \in Queued
    PROVE  LET m == compositor_queue[i] IN
           \E t \in Task : /\ m.window \in recorded[t] /\ m.window \in Window
                           /\ life[m.window] # "unmade"
                           /\ m.caller = t \/ (m.caller = NoTask /\ m.command = "destroy" /\ Taken(t, m.window))
<1> DEFINE m == compositor_queue[i]
<1>1. m \in Message /\ m.caller \in Task \cup {NoTask} /\ m.window \in Window
  BY QueueFacts DEF Message
<1>2. CASE m.caller # NoTask
  <2>1. m.caller \in Task /\ app[m.caller].pc = "wait" /\ app[m.caller].window = m.window
    BY <1>1, <1>2 DEF MessagesInv
  <2> QED
    BY <2>1, <1>1 DEF OwnersInv
<1>3. CASE m.caller = NoTask
  <2>1. m.command = "destroy" /\ \E t \in Task : m.window \in recorded[t] /\ Taken(t, m.window)
    BY <1>3 DEF MessagesInv
  <2> QED
    BY <2>1, <1>1, <1>3 DEF OwnersInv
<1> QED
  BY <1>2, <1>3

(* What Interrupted says of a window.                                      *)
LEMMA InterruptedFacts ==
    ASSUME CompositorTypeOK
    PROVE  \A w \in Window : w \in Interrupted <=>
             \E t \in Task : /\ tcb[t] # "live" /\ app[t].window = w
                             /\ app[t].pc = "wait" /\ app[t].command = "destroy"
BY DEF Interrupted, Live

(* The compositor's own steps: no command, and nothing new in the ring.    *)
LEMMA CompositorMoves ==
    ASSUME RestInv, linked' \subseteq linked,
           UNCHANGED <<clientVars, compositor_queue, deathVars, notified, hades>>
    PROVE  RestInv'
<1>1. UNCHANGED <<life, task_info, recorded, app, compositor_queue, tcb, hades_queue, notified, hades>>
  BY DEF clientVars, deathVars
<1>2. UNCHANGED Interrupted
  BY <1>1 DEF Interrupted, Live
<1>3. OwnersInv' /\ DeathInv'
  BY <1>1 DEF RestInv, OwnersInv, DeathInv, HadesHas
<1>4. MessagesInv'
  BY <1>1 DEF RestInv, MessagesInv, Queued, Taken, HadesHas
<1>5. EnterInv' /\ FreedInv'
  BY <1>1, <1>2 DEF RestInv, EnterInv, FreedInv, Queued, Taken, HadesHas
<1>6. CommandsFindTheirWindow'
  BY <1>1, <1>2 DEF RestInv, CommandsFindTheirWindow
<1> QED
  BY <1>3, <1>4, <1>5, <1>6 DEF RestInv

(* A task is deleted, by itself or by FN+CROSS.                            *)
LEMMA DeathKeeps ==
    ASSUME CompositorTypeOK, RestInv, NEW t \in Task, Live(t), Bury(t),
           UNCHANGED <<clientVars, linked, compositor_queue, notified, hades>>
    PROVE  /\ RestInv'
           /\ tcb' \in [Task -> {"live", "freed", "gone"}]
           /\ hades_queue' \in Seq(Task) /\ Len(hades_queue') <= HadesQueueLen
<1>1. UNCHANGED <<life, task_info, recorded, app, linked, compositor_queue, notified, hades>>
  BY DEF clientVars
<1>2. /\ tcb' = [tcb EXCEPT ![t] = "freed"] /\ tcb \in [Task -> {"live", "freed", "gone"}]
      /\ tcb[t] = "live" /\ tcb'[t] = "freed" /\ \A u \in Task : u # t => tcb'[u] = tcb[u]
  BY DEF Bury, Live, CompositorTypeOK
<1>3. /\ hades_queue' \in Seq(Task) /\ Len(hades_queue') <= HadesQueueLen
      /\ \A i \in DOMAIN hades_queue' :
           \/ i \in DOMAIN hades_queue /\ hades_queue'[i] = hades_queue[i] /\ hades_queue[i] \in Task
           \/ i = Len(hades_queue) + 1 /\ hades_queue'[i] = t
  <2>1. /\ hades_queue \in Seq(Task) /\ hades_queue' = Append(hades_queue, t)
        /\ Len(hades_queue) < HadesQueueLen /\ HadesQueueLen \in Nat
    BY CompositorAssumption DEF CompositorTypeOK, Bury
  <2> QED
    BY <2>1
<1>4. OwnersInv'
  BY <1>1 DEF RestInv, OwnersInv
<1>5. DeathInv'
  BY <1>1, <1>2, <1>3 DEF RestInv, DeathInv, HadesHas
<1>6. \A u \in Task, w \in Window : Taken(u, w)' <=> Taken(u, w)
  BY <1>1, <1>2 DEF Taken, HadesHas
<1>7. \A w \in Window : w \in Interrupted => w \in Interrupted'
  BY <1>1, <1>2 DEF Interrupted, Live
<1>8. MessagesInv'
  BY <1>1, <1>6, QueueFacts DEF RestInv, MessagesInv, Queued, Message
<1>9. EnterInv' /\ FreedInv'
  <2>1. recorded \in [Task -> SUBSET Window]
    BY DEF CompositorTypeOK
  <2> QED
    BY <1>1, <1>6, <1>7, <2>1 DEF RestInv, EnterInv, FreedInv, Queued
<1>10. CommandsFindTheirWindow'
  BY <1>1, <1>7, QueueFacts DEF RestInv, CommandsFindTheirWindow, Queued, Message
<1> QED
  BY <1>2, <1>3, <1>4, <1>5, <1>8, <1>9, <1>10 DEF RestInv

-----------------------------------------------------------------------------
(* The calls of a task.                                                    *)
LEMMA CallsKeepOthers ==
    ASSUME CompositorTypeOK, RingInv, ClientOnly
    PROVE  /\ RingInv' /\ UNCHANGED linked
           /\ UNCHANGED <<compositor, tcb, hades_queue, hades, kills, fault>>
<1>1. UNCHANGED <<ringVars, compositor, tcb, hades_queue, hades, kills, fault>>
  BY DEF ClientOnly, deathVars
<1> QED
  BY <1>1, SameRing DEF RingInv

(* What a living task does interrupts no destruction, and takes no window. *)
LEMMA LivingTask ==
    ASSUME CompositorTypeOK, NEW t \in Task, Live(t), DeathInv, UNCHANGED <<tcb, hades>>,
           \A u \in Task : u # t => app'[u] = app[u]
    PROVE  /\ Interrupted' = Interrupted
           /\ \A u \in Task, w \in Window : Taken(u, w)' <=> Taken(u, w)
           /\ \A w \in Window : ~Taken(t, w)
           /\ ~HadesHas(t) /\ tcb[t] = "live"
<1>1. Interrupted' = Interrupted
  BY DEF Interrupted, Live
<1>2. ~HadesHas(t) /\ tcb[t] = "live"
  BY DEF DeathInv, HadesHas, Live
<1> QED
  BY <1>1, <1>2 DEF Taken, HadesHas

(* A task that goes about its calls, with the windows it has.              *)
Doing == [pc : {"run", "create", "send", "wait"}, command : Command, window : Window \cup {NoWindow}]

LEMMA TaskMoves ==
    ASSUME CompositorInv, NEW t \in Task, Live(t), app[t].pc = "run", ClientOnly,
           UNCHANGED <<life, recorded, compositor_queue, notified>>,
           NEW a \in Doing, app' = [app EXCEPT ![t] = a], a.pc # "wait",
           a.pc = "send" => /\ a.window \in recorded[t] /\ a.command # "create"
                            /\ a.command = "destroy" => task_info'[a.window] = NoTask,
           task_info' \in [Window -> Task \cup {NoTask}],
           \A w \in Window : task_info'[w] \in {task_info[w], NoTask}
    PROVE  CompositorInv'
<1> USE DEF CompositorInv, RestInv
<1>1. UNCHANGED <<compositor, tcb, hades_queue, hades, kills, fault, linked>> /\ RingInv'
  BY CallsKeepOthers
<1>2. /\ app'[t] = a /\ \A u \in Task : u # t => app'[u] = app[u]
      /\ app' \in [Task -> Doing]
  BY DEF CompositorTypeOK, Doing
<1>3. /\ Interrupted' = Interrupted /\ ~HadesHas(t) /\ tcb[t] = "live"
      /\ \A u \in Task, w \in Window : Taken(u, w)' <=> Taken(u, w)
      /\ \A w \in Window : ~Taken(t, w)
  BY <1>1, <1>2, LivingTask
<1>4. recorded \in [Task -> SUBSET Window] /\ NoTask \notin Task
  BY CompositorAssumption DEF CompositorTypeOK
<1>5. CompositorTypeOK'
  BY <1>1, <1>2, ZenonT(60) DEF CompositorTypeOK, RingInv, OneRing, Doing
<1>6. OwnersInv'
  BY <1>1, <1>2, <1>4 DEF OwnersInv
<1>7. DeathInv'
  BY <1>1, <1>4 DEF DeathInv, HadesHas
<1>8. MessagesInv'
  BY <1>1, <1>2, <1>3, QueueFacts DEF MessagesInv, Queued, Message
<1>9. EnterInv'
  BY <1>1, <1>2 DEF EnterInv, Queued
<1>10. FreedInv'
  BY <1>1, <1>2, <1>3, <1>4 DEF FreedInv
<1>11. CommandsFindTheirWindow'
  BY <1>1, <1>3 DEF CommandsFindTheirWindow
<1> QED
  BY <1>1, <1>5, <1>6, <1>7, <1>8, <1>9, <1>10, <1>11

(* window_create's look at the count, window_destroy, and the other calls. *)
LEMMA CallsKeep ==
    ASSUME CompositorInv, NEW t \in Task, CheckRoom(t) \/ Destroy(t) \/ Change(t)
    PROVE  CompositorInv'
<1>1. /\ app \in [Task -> Doing] /\ task_info \in [Window -> Task \cup {NoTask}]
      /\ recorded \in [Task -> SUBSET Window]
  BY DEF CompositorInv, CompositorTypeOK, Doing
<1>2. CASE CheckRoom(t)
  <2> DEFINE a == [app[t] EXCEPT !.pc = "create"]
  <2>1. /\ Live(t) /\ app[t].pc = "run" /\ ClientOnly /\ app' = [app EXCEPT ![t] = a]
        /\ UNCHANGED <<life, task_info, recorded, compositor_queue, notified>>
    BY <1>1, <1>2 DEF CheckRoom, Does, Goes
  <2>2. a \in Doing /\ a.pc = "create"
    BY <1>1 DEF Doing
  <2> HIDE DEF a
  <2> QED
    BY <1>1, <2>1, <2>2, TaskMoves
<1>3. CASE Destroy(t)
  <2>1. PICK w \in Mine(t) : task_info' = [task_info EXCEPT ![w] = NoTask] /\ Call(t, "destroy", w)
    BY <1>3 DEF Destroy
  <2> DEFINE a == [pc |-> "send", command |-> "destroy", window |-> w]
  <2>2. /\ Live(t) /\ app[t].pc = "run" /\ ClientOnly /\ app' = [app EXCEPT ![t] = a]
        /\ UNCHANGED <<life, recorded, compositor_queue, notified>>
    BY <1>1, <1>3, <2>1 DEF Destroy, Does, Call
  <2>3. w \in recorded[t] /\ w \in Window
    BY <1>1 DEF Mine
  <2>4. a \in Doing /\ a.pc = "send" /\ a.command = "destroy" /\ a.window = w
    BY <2>3 DEF Doing, Command
  <2>5. task_info' \in [Window -> Task \cup {NoTask}] /\ task_info'[w] = NoTask
        /\ \A v \in Window : task_info'[v] \in {task_info[v], NoTask}
    BY <1>1, <2>1, <2>3
  <2> HIDE DEF a
  <2> QED
    BY <2>2, <2>3, <2>4, <2>5, TaskMoves
<1>4. CASE Change(t)
  <2>1. PICK w \in Mine(t) : Call(t, "change", w)
    BY <1>4 DEF Change
  <2> DEFINE a == [pc |-> "send", command |-> "change", window |-> w]
  <2>2. /\ Live(t) /\ app[t].pc = "run" /\ ClientOnly /\ app' = [app EXCEPT ![t] = a]
        /\ UNCHANGED <<life, task_info, recorded, compositor_queue, notified>>
    BY <1>1, <1>4, <2>1 DEF Change, Does, Call
  <2>3. w \in recorded[t] /\ w \in Window
    BY <1>1 DEF Mine
  <2>4. a \in Doing /\ a.pc = "send" /\ a.command = "change" /\ a.window = w
    BY <2>3 DEF Doing, Command
  <2> HIDE DEF a
  <2> QED
    BY <1>1, <2>2, <2>3, <2>4, TaskMoves
<1> QED
  BY <1>2, <1>3, <1>4

(* window_create makes a window that nobody knows yet.                     *)
LEMMA MakeKeeps ==
    ASSUME CompositorInv, NEW t \in Task, Make(t)
    PROVE  CompositorInv'
<1> USE DEF CompositorInv, RestInv
<1>1. PICK w \in Window :
        /\ \A v \in Window : v < w <=> life[v] # "unmade"
        /\ life' = [life EXCEPT ![w] = "made"]
        /\ task_info' = [task_info EXCEPT ![w] = t]
        /\ recorded' = [recorded EXCEPT ![t] = @ \cup {w}]
        /\ app' = [app EXCEPT ![t] = [pc |-> "send", command |-> "create", window |-> w]]
  BY DEF Make
<1>2. /\ Live(t) /\ app[t].pc = "create" /\ ClientOnly /\ UNCHANGED <<compositor_queue, notified>>
      /\ UNCHANGED <<compositor, tcb, hades_queue, hades, kills, fault, linked>> /\ RingInv'
  BY CallsKeepOthers DEF Make, Does
<1>3. /\ recorded \in [Task -> SUBSET Window] /\ NoTask \notin Task
      /\ life \in [Window -> {"unmade", "made", "freed"}] /\ app \in [Task -> Doing]
      /\ task_info \in [Window -> Task \cup {NoTask}] /\ linked \subseteq Window
  BY CompositorAssumption DEF CompositorTypeOK, Doing, RingTypeOK
<1>4. life[w] = "unmade"
  <2>1. ~(w < w)
    BY DEF Window
  <2> QED
    BY <1>1, <2>1
<1>5. /\ app'[t].pc = "send" /\ app'[t].command = "create" /\ app'[t].window = w
      /\ \A u \in Task : u # t => app'[u] = app[u]
      /\ app' \in [Task -> Doing]
  BY <1>1, <1>3 DEF Doing, Command
<1>6. /\ Interrupted' = Interrupted /\ ~HadesHas(t) /\ tcb[t] = "live"
      /\ \A u \in Task, v \in Window : Taken(u, v)' <=> Taken(u, v)
      /\ \A v \in Window : ~Taken(t, v)
  BY <1>2, <1>5, LivingTask
<1>7. /\ life'[w] = "made" /\ task_info'[w] = t
      /\ \A v \in Window : v # w => life'[v] = life[v] /\ task_info'[v] = task_info[v]
      /\ recorded'[t] = recorded[t] \cup {w} /\ \A u \in Task : u # t => recorded'[u] = recorded[u]
      /\ \A u \in Task : recorded[u] \subseteq recorded'[u]
  BY <1>1, <1>3
<1>8. \A u \in Task : w \notin recorded[u]
  BY <1>4 DEF OwnersInv
<1>9. w \notin linked /\ \A i \in Queued : compositor_queue[i].window # w
  BY <1>4, QueuedWindow DEF EnterInv
<1>10. CompositorTypeOK'
  <2>1. life' \in [Window -> {"unmade", "made", "freed"}]
    BY <1>1, <1>3
  <2>2. task_info' \in [Window -> Task \cup {NoTask}]
    BY <1>1, <1>3
  <2>3. recorded' \in [Task -> SUBSET Window]
    BY <1>1, <1>3
  <2> QED
    BY <1>2, <1>5, <2>1, <2>2, <2>3, ZenonT(60) DEF CompositorTypeOK, RingInv, OneRing, Doing
<1>11. OwnersInv'
  <2>1. \A u, v \in Task : \A x \in recorded'[u] \cap recorded'[v] : u = v
    BY <1>7, <1>8 DEF OwnersInv
  <2>2. \A u \in Task : \A x \in recorded'[u] : life'[x] # "unmade"
    BY <1>3, <1>7 DEF OwnersInv
  <2>3. \A x \in Window, u \in Task : task_info'[x] = u => x \in recorded'[u]
    BY <1>3, <1>7 DEF OwnersInv
  <2>4. \A u \in Task : app'[u].pc \in {"send", "wait"} =>
           app'[u].window \in recorded'[u] /\ (app'[u].command = "destroy" => task_info'[app'[u].window] = NoTask)
    <3> TAKE u \in Task
    <3>1. CASE u = t
      BY <3>1, <1>5, <1>7
    <3>2. CASE u # t
      BY <3>2, <1>3, <1>5, <1>7, <1>8 DEF OwnersInv
    <3> QED
      BY <3>1, <3>2
  <2> QED
    BY <2>1, <2>2, <2>3, <2>4 DEF OwnersInv
<1>12. DeathInv'
  <2>1. \A x \in Window, u \in Task : task_info'[x] = u => tcb[u] # "gone" /\ (HadesHas(u) => x \in hades.todo)
    BY <1>6, <1>7 DEF DeathInv
  <2>2. hades.pc # "wait" => hades.todo \subseteq recorded'[hades.task]
    BY <1>7 DEF DeathInv
  <2>3. hades.pc = "send" => hades.window \in recorded'[hades.task] \ hades.todo
    BY <1>7 DEF DeathInv
  <2> QED
    BY <1>2, <2>1, <2>2, <2>3 DEF DeathInv, HadesHas
<1>13. MessagesInv'
  <2>1. \A u \in Task : notified[u] => app'[u].pc = "wait"
    BY <1>2, <1>5 DEF MessagesInv
  <2>2. ASSUME NEW i \in Queued, compositor_queue[i].caller # NoTask
        PROVE  compositor_queue[i].caller \in Task /\ compositor_queue[i].caller # t
    BY <2>2, <1>2, QueueFacts DEF MessagesInv, Message
  <2>3. ASSUME NEW i \in Queued, compositor_queue[i].caller = NoTask
        PROVE  \E u \in Task : compositor_queue[i].window \in recorded'[u] /\ Taken(u, compositor_queue[i].window)'
    <3>1. PICK u \in Task : compositor_queue[i].window \in recorded[u] /\ Taken(u, compositor_queue[i].window)
      BY <2>3 DEF MessagesInv
    <3>2. compositor_queue[i].window \in Window
      BY QueueFacts DEF Message
    <3>3. Taken(u, compositor_queue[i].window)'
      BY <3>1, <3>2, <1>2, <1>6
    <3> QED
      BY <3>1, <3>3, <1>7
  <2> QED
    BY <1>2, <1>5, <2>1, <2>2, <2>3 DEF MessagesInv, Queued
<1>14. EnterInv'
  <2>1. \A v \in linked : life'[v] = "made"
    BY <1>3, <1>7, <1>9 DEF EnterInv
  <2>2. \A u \in Task : app'[u].pc = "send" /\ app'[u].command = "create" => app'[u].window \notin linked
    BY <1>5, <1>9 DEF EnterInv
  <2> QED
    BY <1>2, <2>1, <2>2 DEF EnterInv, Queued
<1>15. FreedInv'
  BY <1>2, <1>3, <1>5, <1>6, <1>7 DEF FreedInv
<1>16. CommandsFindTheirWindow'
  BY <1>2, <1>6, <1>7, <1>9, QueueFacts DEF CommandsFindTheirWindow, Queued, Message
<1> QED
  BY <1>2, <1>10, <1>11, <1>12, <1>13, <1>14, <1>15, <1>16

(* No destruction of a window is queued as long as its living task has not *)
(* sent one; and the window is not freed.                                  *)
LEMMA NothingBefore ==
    ASSUME CompositorInv, NEW t \in Task, Live(t), app[t].pc # "wait", NEW w \in recorded[t]
    PROVE  /\ life[w] = "made" /\ w \in Window
           /\ \A i \in Queued : compositor_queue[i].window # w
<1> USE DEF CompositorInv, RestInv
<1>1. w \in Window /\ life[w] \in {"unmade", "made", "freed"} /\ life[w] # "unmade"
  BY DEF CompositorTypeOK, OwnersInv
<1>2. ~Taken(t, w)
  BY DEF DeathInv, Taken, HadesHas, Live
<1>3. ASSUME NEW u \in Task, w \in recorded[u]
      PROVE  u = t
  BY <1>3 DEF OwnersInv
<1>4. ASSUME NEW i \in Queued, compositor_queue[i].window = w
      PROVE  FALSE
  <2>1. PICK u \in Task : /\ w \in recorded[u]
                          /\ \/ compositor_queue[i].caller = u
                             \/ compositor_queue[i].caller = NoTask /\ Taken(u, w)
    BY <1>4, QueuedWindow
  <2>2. u = t /\ compositor_queue[i].caller = t
    BY <1>2, <1>3, <2>1
  <2>3. app[t].pc = "wait"
    BY <2>2, CompositorAssumption DEF MessagesInv
  <2> QED
    BY <2>3
<1>5. w \notin Interrupted
  <2> SUFFICES ASSUME w \in Interrupted PROVE FALSE
    OBVIOUS
  <2>1. PICK u \in Task : ~Live(u) /\ app[u].window = w /\ app[u].pc = "wait"
    BY DEF Interrupted
  <2>2. w \in recorded[u]
    BY <2>1 DEF OwnersInv
  <2> QED
    BY <2>1, <2>2, <1>3
<1>6. life[w] # "freed"
  BY <1>2, <1>5 DEF FreedInv
<1> QED
  BY <1>1, <1>4, <1>6

(* A command is sent ahead of any destruction of its window.               *)
LEMMA SendKeeps ==
    ASSUME CompositorInv, NEW t \in Task, SendCommand(t)
    PROVE  CompositorInv'
<1> USE DEF CompositorInv, RestInv
<1> DEFINE m == [command |-> app[t].command, window |-> app[t].window, caller |-> t]
           n == Len(compositor_queue)
<1>1. /\ Live(t) /\ app[t].pc = "send" /\ ClientOnly /\ QueueHasRoom
      /\ compositor_queue' = Append(compositor_queue, m)
      /\ app' = [app EXCEPT ![t].pc = "wait"]
      /\ UNCHANGED <<life, task_info, recorded, notified>>
  BY DEF SendCommand, Does, Send, Goes
<1>2. /\ UNCHANGED <<compositor, tcb, hades_queue, hades, kills, fault, linked>> /\ RingInv'
  BY <1>1, CallsKeepOthers
<1>3. /\ app \in [Task -> Doing] /\ recorded \in [Task -> SUBSET Window] /\ NoTask \notin Task
  BY CompositorAssumption DEF CompositorTypeOK, Doing
<1>4. /\ app'[t].pc = "wait" /\ app'[t].command = app[t].command /\ app'[t].window = app[t].window
      /\ \A u \in Task : u # t => app'[u] = app[u]
      /\ app' \in [Task -> Doing]
  BY <1>1, <1>3 DEF Doing
<1>5. /\ app[t].window \in recorded[t] /\ app[t].window \in Window /\ life[app[t].window] = "made"
      /\ \A i \in Queued : compositor_queue[i].window # app[t].window
  <2>1. app[t].window \in recorded[t] /\ app[t].pc # "wait"
    BY <1>1 DEF OwnersInv
  <2> QED
    BY <1>1, <2>1, NothingBefore
<1>6. /\ Interrupted' = Interrupted /\ ~HadesHas(t) /\ tcb[t] = "live"
      /\ \A u \in Task, v \in Window : Taken(u, v)' <=> Taken(u, v)
      /\ \A v \in Window : ~Taken(t, v)
  BY <1>1, <1>2, <1>4, LivingTask
<1>7. m \in Message /\ m.command = app[t].command /\ m.window = app[t].window /\ m.caller = t
  BY <1>3, <1>5 DEF Message, Doing
<1> HIDE DEF m
<1>8. /\ compositor_queue' \in Seq(Message) /\ Len(compositor_queue') <= QueueLen
      /\ n \in Nat /\ Len(compositor_queue') = n + 1
      /\ Queued = 1..n /\ Queued' = 1..(n + 1)
      /\ \A i \in Queued' : \/ i \in Queued /\ compositor_queue'[i] = compositor_queue[i]
                            \/ i = n + 1 /\ compositor_queue'[i] = m
  BY <1>1, <1>7, CommandSent
<1> HIDE DEF n
<1>9. ~notified[t] /\ \A i \in Queued : compositor_queue[i].caller # t
  BY <1>1, <1>3 DEF MessagesInv
<1>10. CompositorTypeOK'
  BY <1>1, <1>2, <1>4, <1>8, ZenonT(60) DEF CompositorTypeOK, RingInv, OneRing, Doing
<1>11. OwnersInv'
  BY <1>1, <1>4 DEF OwnersInv
<1>12. DeathInv'
  BY <1>1, <1>2 DEF DeathInv, HadesHas
<1>13. MessagesInv'
  <2>1. \A u \in Task : notified'[u] => app'[u].pc = "wait"
    BY <1>1, <1>4 DEF MessagesInv
  <2>2. ASSUME NEW i \in Queued', compositor_queue'[i].caller # NoTask
        PROVE  LET c == compositor_queue'[i] IN
               /\ app'[c.caller].pc = "wait" /\ ~notified'[c.caller]
               /\ app'[c.caller].command = c.command /\ app'[c.caller].window = c.window
               /\ \A j \in Queued' : compositor_queue'[j].caller = c.caller => i = j
    <3>1. CASE i \in Queued /\ compositor_queue'[i] = compositor_queue[i]
      <4>1. compositor_queue[i].caller \in Task
        BY <2>2, <3>1, QueueFacts DEF Message
      <4> QED
        BY <2>2, <3>1, <4>1, <1>1, <1>4, <1>7, <1>8, <1>9 DEF MessagesInv
    <3>2. CASE i = n + 1 /\ compositor_queue'[i] = m
      BY <3>2, <1>1, <1>4, <1>7, <1>8, <1>9
    <3> QED
      BY <3>1, <3>2, <1>8
  <2>3. ASSUME NEW i \in Queued', compositor_queue'[i].caller = NoTask
        PROVE  (compositor_queue[i].command = "destroy"
                /\ \E u \in Task : compositor_queue[i].window \in recorded[u] /\ Taken(u, compositor_queue[i].window))'
    <3>1. i \in Queued /\ compositor_queue'[i] = compositor_queue[i]
      BY <2>3, <1>3, <1>7, <1>8
    <3>2. PICK u \in Task : compositor_queue[i].window \in recorded[u] /\ Taken(u, compositor_queue[i].window)
      BY <2>3, <3>1 DEF MessagesInv
    <3>3. compositor_queue[i].window \in Window /\ compositor_queue[i].command = "destroy"
      BY <2>3, <3>1, QueueFacts DEF Message, MessagesInv
    <3>4. Taken(u, compositor_queue[i].window)'
      BY <3>1, <3>2, <3>3, <1>6
    <3> QED
      BY <3>1, <3>2, <3>3, <3>4, <1>1
  <2> QED
    BY <2>1, <2>2, <2>3 DEF MessagesInv
<1>14. EnterInv'
  <2>1. \A u \in Task : app'[u].pc = "send" /\ app'[u].command = "create" => app'[u].window \notin linked
    BY <1>4 DEF EnterInv
  <2>2. \A i \in Queued' : compositor_queue'[i].command = "create" => compositor_queue'[i].window \notin linked
    BY <1>1, <1>7, <1>8 DEF EnterInv
  <2> QED
    BY <1>1, <1>2, <2>1, <2>2 DEF EnterInv
<1>15. FreedInv'
  BY <1>1, <1>3, <1>4, <1>6 DEF FreedInv
<1>16. CommandsFindTheirWindow'
  <2> SUFFICES ASSUME NEW i \in 1..(n + 1), compositor_queue'[i].window \notin Interrupted
               PROVE  /\ life[compositor_queue'[i].window] = "made"
                      /\ \A j \in 1..(i - 1) : compositor_queue'[j].window = compositor_queue'[i].window
                                               => compositor_queue'[j].command # "destroy"
    BY <1>1, <1>6, <1>8 DEF CommandsFindTheirWindow
  <2>1. ASSUME i \in Queued
        PROVE  /\ i \in 1..Len(compositor_queue) /\ compositor_queue'[i] = compositor_queue[i]
               /\ \A j \in 1..(i - 1) : compositor_queue'[j] = compositor_queue[j]
    BY <2>1, <1>8 DEF n
  <2>2. CASE i \in Queued
    BY <2>1, <2>2 DEF CommandsFindTheirWindow
  <2>3. CASE i = n + 1 /\ compositor_queue'[i] = m
    <3>1. \A j \in 1..(i - 1) : j \in Queued /\ compositor_queue'[j] = compositor_queue[j]
      BY <2>3, <1>8
    <3> QED
      BY <2>3, <3>1, <1>5, <1>7
  <2> QED
    BY <2>2, <2>3, <1>8
<1> QED
  BY <1>2, <1>10, <1>11, <1>12, <1>13, <1>14, <1>15, <1>16

(* An answered call leaves no command behind.                              *)
LEMMA ReturnKeeps ==
    ASSUME CompositorInv, NEW t \in Task, Return(t)
    PROVE  CompositorInv'
<1> USE DEF CompositorInv, RestInv
<1>1. /\ Live(t) /\ app[t].pc = "wait" /\ notified[t] /\ ClientOnly
      /\ notified' = [notified EXCEPT ![t] = FALSE]
      /\ recorded' = [recorded EXCEPT ![t] =
                        IF app[t].command = "destroy" THEN @ \ {app[t].window} ELSE @]
      /\ app' = [app EXCEPT ![t] = Idle]
      /\ UNCHANGED <<life, task_info, compositor_queue>>
  BY DEF Return, Does
<1>2. /\ UNCHANGED <<compositor, tcb, hades_queue, hades, kills, fault, linked>> /\ RingInv'
  BY <1>1, CallsKeepOthers
<1>3. /\ app \in [Task -> Doing] /\ recorded \in [Task -> SUBSET Window] /\ NoTask \notin Task
      /\ notified \in [Task -> BOOLEAN]
  BY CompositorAssumption DEF CompositorTypeOK, Doing
<1>4. /\ app'[t].pc = "run" /\ \A u \in Task : u # t => app'[u] = app[u]
      /\ app' \in [Task -> Doing]
  BY <1>1, <1>3 DEF Doing, Idle, Command
<1>5. /\ \A u \in Task : u # t => recorded'[u] = recorded[u]
      /\ \A u \in Task : recorded'[u] \subseteq recorded[u]
      /\ \A w \in recorded[t] : w \in recorded'[t] \/ (w = app[t].window /\ app[t].command = "destroy")
      /\ app[t].command = "destroy" => app[t].window \notin recorded'[t]
      /\ recorded' \in [Task -> SUBSET Window]
  BY <1>1, <1>3
<1>6. /\ Interrupted' = Interrupted /\ ~HadesHas(t) /\ tcb[t] = "live"
      /\ \A u \in Task, v \in Window : Taken(u, v)' <=> Taken(u, v)
      /\ \A v \in Window : ~Taken(t, v)
  BY <1>1, <1>2, <1>4, LivingTask
<1>7. \A u \in Task : u # t => notified'[u] = notified[u]
  BY <1>1, <1>3
<1>8. notified' \in [Task -> BOOLEAN] /\ ~notified'[t]
  BY <1>1, <1>3
<1>9. CompositorTypeOK'
  BY <1>1, <1>2, <1>4, <1>5, <1>8, ZenonT(60) DEF CompositorTypeOK, RingInv, OneRing, Doing
<1>10. OwnersInv'
  BY <1>1, <1>3, <1>4, <1>5 DEF OwnersInv
<1>11. DeathInv'
  BY <1>1, <1>2, <1>5, <1>6 DEF DeathInv, HadesHas
<1>12. MessagesInv'
  <2>1. \A u \in Task : notified'[u] => app'[u].pc = "wait"
    BY <1>4, <1>7, <1>8 DEF MessagesInv
  <2>2. ASSUME NEW i \in Queued, compositor_queue[i].caller # NoTask
        PROVE  compositor_queue[i].caller \in Task /\ compositor_queue[i].caller # t
    BY <2>2, <1>1, QueueFacts DEF MessagesInv, Message
  <2>3. ASSUME NEW i \in Queued, compositor_queue[i].caller = NoTask
        PROVE  \E u \in Task : compositor_queue[i].window \in recorded'[u] /\ Taken(u, compositor_queue[i].window)'
    <3>1. PICK u \in Task : compositor_queue[i].window \in recorded[u] /\ Taken(u, compositor_queue[i].window)
      BY <2>3 DEF MessagesInv
    <3>2. compositor_queue[i].window \in Window
      BY QueueFacts DEF Message
    <3>3. Taken(u, compositor_queue[i].window)' /\ u # t
      BY <3>1, <3>2, <1>1, <1>6
    <3> QED
      BY <3>1, <3>3, <1>5
  <2> QED
    BY <1>1, <1>4, <1>7, <2>1, <2>2, <2>3 DEF MessagesInv, Queued
<1>13. EnterInv'
  BY <1>1, <1>2, <1>4 DEF EnterInv, Queued
<1>14. FreedInv'
  <2> SUFFICES ASSUME NEW u \in Task, NEW w \in recorded'[u], w \notin Interrupted, life[w] = "freed"
               PROVE  \/ Taken(u, w)'
                      \/ app'[u].pc = "wait" /\ app'[u].command = "destroy" /\ app'[u].window = w /\ notified'[u]
    BY <1>1, <1>6 DEF FreedInv
  <2>1. w \in recorded[u] /\ w \in Window
    BY <1>3, <1>5
  <2>2. CASE u = t
    <3>1. app[t].command = "destroy" /\ app[t].window = w
      BY <2>1, <2>2, <1>6 DEF FreedInv
    <3> QED
      BY <3>1, <2>2, <1>5
  <2>3. CASE u # t
    BY <2>1, <2>3, <1>4, <1>6, <1>7 DEF FreedInv
  <2> QED
    BY <2>2, <2>3
<1>15. CommandsFindTheirWindow'
  BY <1>1, <1>6 DEF CommandsFindTheirWindow
<1> QED
  BY <1>2, <1>9, <1>10, <1>11, <1>12, <1>13, <1>14, <1>15

LEMMA ExitKeeps ==
    ASSUME CompositorInv, NEW t \in Task, Exit(t)
    PROVE  CompositorInv'
<1>1. /\ Live(t) /\ Bury(t) /\ UNCHANGED <<clientVars, linked, compositor_queue, notified, hades>>
      /\ UNCHANGED <<ringVars, life, task_info, recorded, app, compositor, kills, fault>>
  BY DEF Exit, Does, ringVars, clientVars
<1>2. RingInv'
  BY <1>1, SameRing DEF CompositorInv, RingInv
<1>3. /\ RestInv' /\ tcb' \in [Task -> {"live", "freed", "gone"}]
      /\ hades_queue' \in Seq(Task) /\ Len(hades_queue') <= HadesQueueLen
  BY <1>1, DeathKeeps DEF CompositorInv
<1>4. CompositorTypeOK'
  BY <1>1, <1>2, <1>3, ZenonT(60) DEF CompositorInv, CompositorTypeOK, RingInv, OneRing
<1> QED
  BY <1>2, <1>3, <1>4 DEF CompositorInv
-----------------------------------------------------------------------------
(* The compositor's frame.                                                 *)
FrameState == [pc : {"commands", "keys", "cross", "render", "draw"}, processed : 0..CommandsPerFrame,
               window : Window \cup {NoWindow}, victim : Task \cup {NoTask}]
Faults == {"none", "used a freed window", "removed a window twice", "used a freed task_info",
           "read a freed task"}

LEMMA FaultKeeps ==
    ASSUME CompositorInv, NEW what \in Faults, Faulty(what)
    PROVE  CompositorInv'
<1>1. /\ UNCHANGED <<clientVars, linked, compositor_queue, deathVars, notified, hades>>
      /\ UNCHANGED <<ringVars, compositor, kills>> /\ fault' = what
  BY DEF Faulty, ringVars
<1>2. RingInv'
  BY <1>1, SameRing DEF CompositorInv, RingInv
<1>3. RestInv'
  BY <1>1, CompositorMoves DEF CompositorInv
<1>4. CompositorTypeOK'
  BY <1>1, <1>2, ZenonT(60) DEF CompositorInv, CompositorTypeOK, RingInv, OneRing, Faults, clientVars, deathVars
<1> QED
  BY <1>2, <1>3, <1>4 DEF CompositorInv

(* Whatever does no more than move the focus, take a window out of the     *)
(* ring, and go on to one that is in it.                                   *)
LEMMA FrameMoves ==
    ASSUME CompositorInv, OneRing', linked' \subseteq linked, compositor' \in FrameState, kills' \in 0..MaxKills,
           compositor'.pc \in {"render", "draw"} => compositor'.window \in linked',
           FrameOnly, UNCHANGED <<life, compositor_queue, deathVars, notified, fault>>
    PROVE  CompositorInv'
<1>1. UNCHANGED <<task_info, recorded, app, hades, life, compositor_queue, tcb, hades_queue, notified, fault>>
  BY DEF FrameOnly, deathVars
<1>2. RestInv'
  BY <1>1, CompositorMoves DEF CompositorInv, clientVars, deathVars
<1>3. CompositorTypeOK'
  BY <1>1 DEF CompositorInv, CompositorTypeOK, OneRing, FrameState
<1> QED
  BY <1>2, <1>3 DEF CompositorInv, RingInv

(* Drawing begins in the ring.                                             *)
LEMMA DrawFacts ==
    ASSUME CompositorInv, OneRing', UNCHANGED linked, Draw,
           window_stack' # NoWindow => (prev[window_stack])' \in linked
    PROVE  /\ compositor' \in FrameState
           /\ compositor'.pc \in {"render", "draw"} => compositor'.window \in linked'
<1>1. compositor \in FrameState /\ linked \subseteq Window
  BY DEF CompositorInv, CompositorTypeOK, RingTypeOK, FrameState
<1>2. CASE window_stack' = NoWindow
  BY <1>1, <1>2 DEF Draw, FrameState
<1>3. CASE window_stack' # NoWindow
  <2>1. PICK w \in {window_stack', (prev[window_stack])'} :
            compositor' = [compositor EXCEPT !.pc = "render", !.window = w]
    BY <1>3 DEF Draw
  <2>2. w \in linked
    BY <1>3, <2>1 DEF OneRing
  <2> QED
    BY <1>1, <2>1, <2>2 DEF FrameState
<1> QED
  BY <1>2, <1>3

LEMMA FrameKeeps ==
    ASSUME CompositorInv, NoMoreCommands \/ NoKey \/ AltTab \/ Cross \/ DropOrphan \/ SeeOwner
    PROVE  CompositorInv'
<1>1. /\ compositor \in FrameState /\ linked \subseteq Window /\ kills \in 0..MaxKills /\ MaxKills \in Nat
      /\ CommandsPerFrame \in Nat /\ task_info \in [Window -> Task \cup {NoTask}] /\ OneRing
  BY CompositorAssumption DEF CompositorInv, CompositorTypeOK, RingTypeOK, FrameState, RingInv
<1>2. CASE NoMoreCommands
  <2>1. /\ UNCHANGED ringVars /\ compositor' = [compositor EXCEPT !.pc = "keys", !.processed = 0]
        /\ FrameOnly /\ UNCHANGED <<life, compositor_queue, deathVars, notified, kills, fault>>
    BY <1>2 DEF NoMoreCommands
  <2>2. compositor' \in FrameState /\ compositor'.pc = "keys"
    <3>1. 0 \in 0..CommandsPerFrame
      BY <1>1
    <3> QED
      BY <1>1, <2>1, <3>1 DEF FrameState
  <2> QED
    BY <1>1, <2>1, <2>2, SameRing, FrameMoves
<1>3. CASE NoKey
  <2>1. /\ UNCHANGED ringVars /\ Draw
        /\ FrameOnly /\ UNCHANGED <<life, compositor_queue, deathVars, notified, kills, fault>>
    BY <1>3 DEF NoKey
  <2>2. OneRing' /\ UNCHANGED linked /\ UNCHANGED <<window_stack, prev>>
    BY <1>1, <2>1, SameRing DEF ringVars
  <2>3. window_stack' # NoWindow => (prev[window_stack])' \in linked
    BY <1>1, <2>2, RingSound DEF OneRing
  <2> QED
    BY <1>1, <2>1, <2>2, <2>3, DrawFacts, FrameMoves
<1>4. CASE AltTab
  <2>1. /\ SwitchWindow /\ Draw
        /\ FrameOnly /\ UNCHANGED <<life, compositor_queue, deathVars, notified, kills, fault>>
    BY <1>4 DEF AltTab
  <2>2. OneRing' /\ UNCHANGED linked /\ UNCHANGED prev /\ window_stack # NoWindow
    BY <1>1, <2>1, SwitchKeepsRing DEF SwitchWindow
  <2>3. window_stack' \in linked /\ (prev[window_stack])' \in linked
    BY <1>1, <2>1, <2>2, RingSound DEF OneRing, SwitchWindow
  <2> QED
    BY <1>1, <2>1, <2>2, <2>3, DrawFacts, FrameMoves
<1>5. CASE Cross
  <2>1. /\ window_stack # NoWindow /\ RemoveWindow(window_stack, TRUE) /\ kills < MaxKills /\ kills' = kills + 1
        /\ compositor' = [compositor EXCEPT !.pc = "cross", !.victim = task_info[window_stack]]
        /\ FrameOnly /\ UNCHANGED <<life, compositor_queue, deathVars, notified, fault>>
    BY <1>5 DEF Cross
  <2>2. window_stack \in linked /\ task_info[window_stack] \in Task \cup {NoTask}
    BY <1>1, <2>1 DEF OneRing
  <2>3. OneRing' /\ linked' \subseteq linked
    BY <1>1, <2>1, <2>2, RemoveKeepsRing
  <2>4. compositor' \in FrameState /\ compositor'.pc = "cross"
    BY <1>1, <2>1, <2>2 DEF FrameState
  <2>5. kills' \in 0..MaxKills
    BY <1>1, <2>1
  <2> QED
    BY <2>1, <2>3, <2>4, <2>5, FrameMoves
<1>6. CASE DropOrphan
  <2>1. /\ compositor.pc = "render" /\ RemoveWindow(compositor.window, FALSE)
        /\ compositor' = [compositor EXCEPT !.pc = "commands", !.window = NoWindow]
        /\ FrameOnly /\ UNCHANGED <<life, compositor_queue, deathVars, notified, kills, fault>>
    BY <1>6 DEF DropOrphan, At
  <2>2. compositor.window \in linked
    BY <2>1 DEF CompositorInv, RingInv
  <2>3. OneRing' /\ linked' \subseteq linked
    BY <1>1, <2>1, <2>2, RemoveKeepsRing
  <2>4. compositor' \in FrameState /\ compositor'.pc = "commands"
    BY <1>1, <2>1 DEF FrameState
  <2> QED
    BY <1>1, <2>1, <2>3, <2>4, FrameMoves
<1>7. CASE SeeOwner
  <2>1. /\ compositor.pc = "render" /\ UNCHANGED ringVars
        /\ compositor' = [compositor EXCEPT !.pc = "draw", !.victim = task_info[compositor.window]]
        /\ FrameOnly /\ UNCHANGED <<life, compositor_queue, deathVars, notified, kills, fault>>
    BY <1>7 DEF SeeOwner, At
  <2>2. compositor.window \in linked /\ task_info[compositor.window] \in Task \cup {NoTask}
    BY <1>1, <2>1 DEF CompositorInv, RingInv
  <2>3. compositor' \in FrameState /\ compositor'.window = compositor.window
    BY <1>1, <2>1, <2>2 DEF FrameState
  <2> QED
    BY <1>1, <2>1, <2>2, <2>3, SameRing, FrameMoves
<1> QED
  BY <1>2, <1>3, <1>4, <1>5, <1>6, <1>7

LEMMA ReadKeeps ==
    ASSUME CompositorInv, ReadsFreedCaller
    PROVE  CompositorInv'
BY FaultKeeps DEF ReadsFreedCaller, Faults

LEMMA DrawKeeps ==
    ASSUME CompositorInv, DrawWindow
    PROVE  CompositorInv'
<1>1. CASE tcb[compositor.victim] = "gone"
  BY <1>1, FaultKeeps DEF DrawWindow, Faults
<1>2. CASE tcb[compositor.victim] # "gone"
  <2> DEFINE last == compositor.window = window_stack
  <2>1. /\ compositor.pc = "draw" /\ FrameOnly
        /\ UNCHANGED <<ringVars, life, compositor_queue, deathVars, notified, kills, fault>>
        /\ compositor' = [compositor EXCEPT
             !.pc = IF last THEN "commands" ELSE "render",
             !.window = IF last THEN NoWindow ELSE prev[@],
             !.victim = NoTask]
    BY <1>2 DEF DrawWindow, At
  <2>2. /\ compositor \in FrameState /\ linked \subseteq Window /\ kills \in 0..MaxKills /\ OneRing
        /\ compositor.window \in linked
    BY <2>1 DEF CompositorInv, CompositorTypeOK, RingTypeOK, FrameState, RingInv
  <2>3. prev[compositor.window] \in linked
    BY <2>2, RingSound
  <2>4. compositor' \in FrameState /\ (compositor'.pc = "render" => compositor'.window = prev[compositor.window])
        /\ compositor'.pc # "draw"
    <3>1. CASE last
      BY <2>1, <2>2, <3>1 DEF FrameState
    <3>2. CASE ~last
      BY <2>1, <2>2, <2>3, <3>2 DEF FrameState
    <3> QED
      BY <3>1, <3>2
  <2> QED
    BY <2>1, <2>2, <2>3, <2>4, SameRing, FrameMoves
<1> QED
  BY <1>1, <1>2

LEMMA CrossDeleteKeeps ==
    ASSUME CompositorInv, CrossDelete
    PROVE  CompositorInv'
<1> DEFINE t == compositor.victim
<1>1. /\ compositor \in FrameState /\ OneRing /\ kills \in 0..MaxKills
  BY DEF CompositorInv, CompositorTypeOK, FrameState, RingInv
<1>2. CASE t # NoTask /\ tcb[t] = "gone"
  BY <1>2, FaultKeeps DEF CrossDelete, Faults
<1>3. CASE ~(t # NoTask /\ tcb[t] = "gone")
  <2>1. /\ compositor' = [compositor EXCEPT !.pc = "keys", !.victim = NoTask] /\ FrameOnly
        /\ IF t # NoTask /\ Live(t) THEN Bury(t) ELSE UNCHANGED deathVars
        /\ UNCHANGED <<ringVars, life, compositor_queue, notified, kills, fault>>
    BY <1>3 DEF CrossDelete
  <2>2. compositor' \in FrameState /\ compositor'.pc = "keys"
    BY <1>1, <2>1 DEF FrameState
  <2>3. OneRing' /\ UNCHANGED linked
    BY <1>1, <2>1, SameRing
  <2>4. CASE t # NoTask /\ Live(t)
    <3>1. t \in Task /\ Bury(t) /\ UNCHANGED <<clientVars, linked, compositor_queue, notified, hades>>
      BY <1>1, <2>1, <2>3, <2>4 DEF FrameState, FrameOnly, clientVars
    <3>2. /\ RestInv' /\ tcb' \in [Task -> {"live", "freed", "gone"}]
          /\ hades_queue' \in Seq(Task) /\ Len(hades_queue') <= HadesQueueLen
      BY <2>4, <3>1, DeathKeeps DEF CompositorInv
    <3>3. CompositorTypeOK'
      BY <2>1, <2>2, <2>3, <3>2 DEF CompositorInv, CompositorTypeOK, OneRing, FrameState, FrameOnly
    <3> QED
      BY <2>2, <2>3, <3>2, <3>3 DEF CompositorInv, RingInv
  <2>5. CASE ~(t # NoTask /\ Live(t))
    BY <1>1, <2>1, <2>2, <2>3, <2>5, FrameMoves
  <2> QED
    BY <2>4, <2>5
<1> QED
  BY <1>2, <1>3

(* What a command does to the ring and to its window.                      *)
LEMMA ExecuteFacts ==
    ASSUME CompositorInv, Execute, Broken(Head(compositor_queue)) = "none"
    PROVE  LET m == Head(compositor_queue)  w == m.window IN
           /\ m \in Message /\ life[w] = "made" /\ OneRing'
           /\ m.command = "create" => linked' = linked \cup {w} /\ life' = life
           /\ m.command = "destroy" => /\ linked' = linked \ {w} /\ w \notin linked'
                                       /\ life' = [life EXCEPT ![w] = "freed"]
           /\ m.command = "change" => linked' = linked /\ life' = life
<1> DEFINE m == Head(compositor_queue)
           w == m.window
<1> USE DEF CompositorInv, RestInv
<1>1. compositor_queue # <<>> /\ compositor_queue' = Tail(compositor_queue)
  BY DEF Execute
<1>2. m = compositor_queue[1] /\ 1 \in Queued /\ m \in Message /\ w \in Window
  BY <1>1, CommandTaken, QueueFacts DEF Message
<1>3. life[w] # "freed" /\ ~(m.command = "destroy" /\ OutButLinked(w))
  BY DEF Broken
<1>4. life[w] = "made"
  BY <1>2, <1>3, QueuedWindow, ZenonT(60) DEF CompositorTypeOK
<1>5. OneRing
  BY DEF RingInv
<1>6. CASE m.command = "create"
  <2>1. PushWindow(w) /\ UNCHANGED life
    BY <1>6 DEF Execute
  <2>2. w \notin linked
    BY <1>2, <1>6 DEF EnterInv
  <2> QED
    BY <1>2, <1>4, <1>5, <1>6, <2>1, <2>2, PushKeepsRing
<1>7. CASE m.command = "destroy"
  <2>1. RemoveWindow(w, TRUE) /\ life' = [life EXCEPT ![w] = "freed"]
    BY <1>7 DEF Execute, Frees
  <2>2. CASE w \in linked
    BY <1>2, <1>4, <1>5, <1>7, <2>1, <2>2, RemoveKeepsRing
  <2>3. CASE w \notin linked
    <3>1. UNCHANGED ringVars
      BY <1>3, <1>7, <2>1, <2>3 DEF OutButLinked, RemoveWindow
    <3> QED
      BY <1>2, <1>4, <1>5, <1>7, <2>1, <2>3, <3>1, SameRing
  <2> QED
    BY <2>2, <2>3
<1>8. CASE m.command = "change"
  <2>1. UNCHANGED ringVars /\ UNCHANGED life
    BY <1>8 DEF Execute
  <2> QED
    BY <1>2, <1>4, <1>5, <1>8, <2>1, SameRing
<1>9. m.command \in {"create", "destroy", "change"}
  BY <1>2 DEF Message, Command
<1> QED
  BY <1>6, <1>7, <1>8, <1>9

LEMMA ExecuteKeeps ==
    ASSUME CompositorInv, Execute
    PROVE  CompositorInv'
<1> DEFINE m == Head(compositor_queue)
           w == m.window
           n == Len(compositor_queue)
<1> USE DEF CompositorInv, RestInv
<1>1. CASE Broken(m) # "none"
  <2>1. Faulty(Broken(m)) /\ Broken(m) \in Faults
    BY <1>1 DEF Execute, Broken, Faults
  <2> QED
    BY <2>1, FaultKeeps
<1>2. CASE Broken(m) = "none"
  <2>1. /\ m \in Message /\ life[w] = "made" /\ OneRing'
        /\ m.command = "create" => linked' = linked \cup {w} /\ life' = life
        /\ m.command = "destroy" => /\ linked' = linked \ {w} /\ w \notin linked'
                                    /\ life' = [life EXCEPT ![w] = "freed"]
        /\ m.command = "change" => linked' = linked /\ life' = life
    BY <1>2, ExecuteFacts
  <2>2. /\ compositor_queue # <<>> /\ compositor_queue' = Tail(compositor_queue)
        /\ compositor' = [compositor EXCEPT
              !.pc = IF LastOfFrame THEN "keys" ELSE "commands",
              !.processed = IF LastOfFrame THEN 0 ELSE @ + 1]
        /\ notified' = IF m.caller # NoTask /\ Live(m.caller) THEN [notified EXCEPT ![m.caller] = TRUE] ELSE notified
        /\ UNCHANGED <<task_info, recorded, app, hades, tcb, hades_queue, kills, fault>>
    BY <1>2 DEF Execute, Notify, FrameOnly, deathVars
  <2>3. /\ compositor_queue' \in Seq(Message) /\ Len(compositor_queue') <= QueueLen
        /\ n \in Nat /\ Len(compositor_queue') = n - 1
        /\ Queued = 1..n /\ Queued' = 1..(n - 1)
        /\ m = compositor_queue[1] /\ 1 \in Queued
        /\ \A i \in Queued' : i + 1 \in Queued /\ i + 1 # 1 /\ compositor_queue'[i] = compositor_queue[i + 1]
    BY <2>2, CommandTaken
  <2>4. /\ w \in Window /\ m.caller \in Task \cup {NoTask} /\ m.command \in {"create", "destroy", "change"}
        /\ recorded \in [Task -> SUBSET Window] /\ NoTask \notin Task /\ notified \in [Task -> BOOLEAN]
        /\ life \in [Window -> {"unmade", "made", "freed"}] /\ linked \subseteq Window
    BY <2>1, CompositorAssumption DEF Message, Command, CompositorTypeOK, RingTypeOK
  <2> HIDE DEF m, n
  <2>5. PICK t \in Task : /\ w \in recorded[t]
                          /\ m.caller = t \/ (m.caller = NoTask /\ m.command = "destroy" /\ Taken(t, w))
    BY <2>3, QueuedWindow
  <2>6. m.caller # NoTask =>
          /\ app[t].pc = "wait" /\ app[t].command = m.command /\ app[t].window = w
          /\ ~notified[t] /\ \A i \in Queued' : compositor_queue'[i].caller # t
    BY <2>3, <2>4, <2>5, SMTT(30) DEF MessagesInv
  <2>7. /\ notified' \in [Task -> BOOLEAN]
        /\ \A u \in Task : notified[u] => notified'[u]
        /\ \A u \in Task : u # t => notified'[u] = notified[u]
        /\ m.caller = t /\ tcb[t] = "live" => notified'[t]
        /\ m.caller = NoTask => notified' = notified
    BY <2>2, <2>4, <2>5 DEF Live
  <2>8. /\ life' \in [Window -> {"unmade", "made", "freed"}]
        /\ \A v \in Window : v # w => life'[v] = life[v]
        /\ m.command # "destroy" => life' = life
        /\ m.command = "destroy" => life'[w] = "freed"
    BY <2>1, <2>4
  <2>9. /\ Interrupted' = Interrupted
        /\ \A u \in Task, v \in Window : Taken(u, v)' <=> Taken(u, v)
    BY <2>2 DEF Interrupted, Live, Taken, HadesHas
  <2>10. compositor' \in FrameState /\ compositor'.pc \in {"keys", "commands"}
    <3>1. compositor \in FrameState /\ CommandsPerFrame \in Nat /\ compositor.processed \in 0..CommandsPerFrame
      BY CompositorAssumption DEF CompositorTypeOK, FrameState
    <3>2. 0 \in 0..CommandsPerFrame
          /\ (compositor.processed # CommandsPerFrame => compositor.processed + 1 \in 0..CommandsPerFrame)
      BY <3>1
    <3> QED
      BY <2>2, <3>1, <3>2 DEF FrameState, LastOfFrame
  <2>11. CompositorTypeOK' /\ RingInv'
    BY <2>1, <2>2, <2>3, <2>7, <2>8, <2>10 DEF CompositorTypeOK, OneRing, RingInv, FrameState
  <2>12. OwnersInv'
    <3>1. \A u \in Task : \A v \in recorded[u] : life'[v] # "unmade"
      BY <2>1, <2>4, <2>8 DEF OwnersInv
    <3> QED
      BY <2>2, <3>1 DEF OwnersInv
  <2>13. DeathInv'
    BY <2>2 DEF DeathInv, HadesHas
  <2>14. MessagesInv'
    <3>1. \A u \in Task : notified'[u] => app'[u].pc = "wait"
      BY <2>2, <2>5, <2>6, <2>7 DEF MessagesInv
    <3>2. ASSUME NEW i \in Queued', compositor_queue'[i].caller # NoTask
          PROVE  LET c == compositor_queue'[i] IN
                 /\ app'[c.caller].pc = "wait" /\ ~notified'[c.caller]
                 /\ app'[c.caller].command = c.command /\ app'[c.caller].window = c.window
                 /\ \A j \in Queued' : compositor_queue'[j].caller = c.caller => i = j
      <4>1. /\ compositor_queue'[i] = compositor_queue[i + 1] /\ i + 1 \in Queued
            /\ compositor_queue'[i].caller \in Task
        BY <2>3, <3>2, QueueFacts DEF Message
      <4>2. compositor_queue'[i].caller # t \/ m.caller = NoTask
        BY <2>5, <2>6, <3>2
      <4>3. notified'[compositor_queue'[i].caller] = notified[compositor_queue'[i].caller]
        BY <2>5, <2>7, <4>1, <4>2
      <4>4. \A j \in Queued' : compositor_queue'[j].caller = compositor_queue'[i].caller => i = j
        <5> SUFFICES ASSUME NEW j \in Queued', compositor_queue'[j].caller = compositor_queue'[i].caller
                     PROVE  i = j
          OBVIOUS
        <5>1. compositor_queue[j + 1].caller = compositor_queue[i + 1].caller /\ j + 1 \in Queued
              /\ compositor_queue[i + 1].caller # NoTask
          BY <2>3, <3>2, <4>1
        <5>2. i + 1 = j + 1
          BY <4>1, <5>1 DEF MessagesInv
        <5> QED
          BY <2>3, <5>2
      <4> QED
        BY <2>2, <3>2, <4>1, <4>3, <4>4 DEF MessagesInv
    <3>3. ASSUME NEW i \in Queued', compositor_queue'[i].caller = NoTask
          PROVE  (compositor_queue[i].command = "destroy"
                  /\ \E u \in Task : compositor_queue[i].window \in recorded[u] /\ Taken(u, compositor_queue[i].window))'
      <4>1. compositor_queue'[i] = compositor_queue[i + 1] /\ i + 1 \in Queued /\ compositor_queue[i + 1].window \in Window
        BY <2>3, QueueFacts DEF Message
      <4>2. PICK u \in Task : compositor_queue[i + 1].window \in recorded[u] /\ Taken(u, compositor_queue[i + 1].window)
        BY <3>3, <4>1 DEF MessagesInv
      <4>3. compositor_queue[i + 1].command = "destroy"
        BY <3>3, <4>1 DEF MessagesInv
      <4>4. Taken(u, compositor_queue[i].window)'
        BY <2>2, <4>1, <4>2 DEF Taken, HadesHas
      <4> QED
        BY <2>2, <4>1, <4>2, <4>3, <4>4
    <3> QED
      BY <3>1, <3>2, <3>3 DEF MessagesInv
  <2>15. EnterInv'
    <3>1. \A v \in linked' : life'[v] = "made"
      BY <2>1, <2>4, <2>8 DEF EnterInv
    <3>2. ASSUME NEW u \in Task, app[u].pc = "send", app[u].command = "create"
          PROVE  app[u].window \notin linked'
      <4>1. app[u].window \in recorded[u] /\ app[u].window \notin linked
        BY <3>2 DEF OwnersInv, EnterInv
      <4>2. m.command = "create" => app[u].window # w
        <5> SUFFICES ASSUME m.command = "create", app[u].window = w PROVE FALSE
          OBVIOUS
        <5>1. u = t /\ m.caller = t
          BY <2>5, <4>1 DEF OwnersInv
        <5> QED
          BY <2>4, <2>6, <3>2, <5>1
      <4> QED
        BY <2>1, <2>4, <4>1, <4>2
    <3>3. ASSUME NEW i \in Queued', compositor_queue'[i].command = "create"
          PROVE  compositor_queue'[i].window \notin linked'
      <4>1. compositor_queue'[i] = compositor_queue[i + 1] /\ i + 1 \in Queued
        BY <2>3
      <4>2. compositor_queue[i + 1].window \notin linked
        BY <3>3, <4>1 DEF EnterInv
      <4>3. m.command = "create" => compositor_queue[i + 1].window # w
        <5> SUFFICES ASSUME m.command = "create", compositor_queue[i + 1].window = w PROVE FALSE
          OBVIOUS
        <5>1. PICK u \in Task : w \in recorded[u] /\ compositor_queue[i + 1].caller = u
          BY <3>3, <4>1, QueuedWindow
        <5>2. u = t /\ m.caller = t
          BY <2>5, <5>1 DEF OwnersInv
        <5> QED
          BY <2>4, <2>6, <4>1, <5>1, <5>2
      <4> QED
        BY <2>1, <2>4, <4>1, <4>2, <4>3
    <3> QED
      BY <2>2, <3>1, <3>2, <3>3 DEF EnterInv
  <2>16. FreedInv'
    <3> SUFFICES ASSUME NEW u \in Task, NEW v \in recorded[u], v \notin Interrupted, life'[v] = "freed"
                 PROVE  \/ Taken(u, v)
                        \/ app[u].pc = "wait" /\ app[u].command = "destroy" /\ app[u].window = v /\ notified'[u]
      BY <2>2, <2>4, <2>9 DEF FreedInv
    <3>1. v \in Window
      BY <2>4
    <3>2. CASE life[v] = "freed"
      BY <2>7, <3>2 DEF FreedInv
    <3>3. CASE life[v] # "freed"
      <4>1. v = w /\ m.command = "destroy"
        BY <2>8, <3>1, <3>3
      <4>2. u = t
        BY <2>5, <4>1 DEF OwnersInv
      <4>3. CASE m.caller = NoTask
        BY <2>4, <2>5, <4>1, <4>2, <4>3
      <4>4. CASE m.caller # NoTask
        <5>1. m.caller = t /\ app[t].pc = "wait" /\ app[t].command = "destroy" /\ app[t].window = w
          BY <2>5, <2>6, <4>1, <4>4
        <5>2. tcb[t] = "live"
          BY <3>1, <4>1, <5>1 DEF Interrupted, Live
        <5> QED
          BY <2>7, <4>1, <4>2, <5>1, <5>2
      <4> QED
        BY <4>3, <4>4
    <3> QED
      BY <3>2, <3>3
  <2>17. CommandsFindTheirWindow'
    <3> SUFFICES ASSUME NEW i \in Queued', compositor_queue'[i].window \notin Interrupted
                 PROVE  /\ life'[compositor_queue'[i].window] = "made"
                        /\ \A j \in 1..(i - 1) : compositor_queue'[j].window = compositor_queue'[i].window
                                                 => compositor_queue'[j].command # "destroy"
      BY <2>3, <2>9 DEF CommandsFindTheirWindow
    <3>1. /\ compositor_queue'[i] = compositor_queue[i + 1] /\ i + 1 \in 1..Len(compositor_queue)
          /\ compositor_queue[i + 1].window \in Window
      BY <2>3, QueueFacts DEF n, Message
    <3>2. /\ life[compositor_queue[i + 1].window] = "made"
          /\ \A j \in 1..((i + 1) - 1) : compositor_queue[j].window = compositor_queue[i + 1].window
                                         => compositor_queue[j].command # "destroy"
      BY <3>1 DEF CommandsFindTheirWindow
    <3>3. m.command = "destroy" => compositor_queue[i + 1].window # w
      <4>1. 1 \in 1..((i + 1) - 1)
        BY <2>3
      <4> QED
        BY <2>3, <3>2, <4>1
    <3>4. life'[compositor_queue'[i].window] = "made"
      BY <2>8, <3>1, <3>2, <3>3
    <3>5. ASSUME NEW j \in 1..(i - 1)
          PROVE  compositor_queue'[j] = compositor_queue[j + 1] /\ j + 1 \in 1..((i + 1) - 1)
      BY <2>3
    <3> QED
      BY <3>1, <3>2, <3>4, <3>5
  <2> QED
    BY <2>11, <2>12, <2>13, <2>14, <2>15, <2>16, <2>17
<1> QED
  BY <1>1, <1>2
-----------------------------------------------------------------------------
(* Hades.                                                                  *)
LEMMA HadesReceiveKeeps ==
    ASSUME CompositorInv, HadesReceive
    PROVE  CompositorInv'
<1> USE DEF CompositorInv, RestInv
<1> DEFINE t == Head(hades_queue)
<1>1. /\ hades.pc = "wait" /\ hades_queue # <<>> /\ hades_queue' = Tail(hades_queue)
      /\ hades' = [pc |-> "take", task |-> t, window |-> NoWindow, todo |-> recorded[t]]
      /\ UNCHANGED <<ringVars, life, recorded, app, compositor, notified, task_info, compositor_queue, tcb, kills, fault>>
  BY DEF HadesReceive, HadesAt, HadesOnly
<1>2. /\ hades_queue' \in Seq(Task) /\ Len(hades_queue') <= HadesQueueLen
      /\ t = hades_queue[1] /\ t \in Task /\ 1 \in DOMAIN hades_queue
      /\ \A i \in DOMAIN hades_queue' : i + 1 \in DOMAIN hades_queue /\ hades_queue'[i] = hades_queue[i + 1]
                                        /\ i + 1 # 1 /\ i \in Nat
  <2>1. hades_queue \in Seq(Task) /\ Len(hades_queue) <= HadesQueueLen /\ HadesQueueLen \in Nat
    BY CompositorAssumption DEF CompositorTypeOK
  <2> QED
    BY <1>1, <2>1
<1> HIDE DEF t
<1>3. /\ hades'.pc = "take" /\ hades'.task = t /\ hades'.todo = recorded[t]
      /\ recorded \in [Task -> SUBSET Window]
  BY <1>1 DEF CompositorTypeOK
<1>4. RingInv' /\ UNCHANGED linked
  BY <1>1, SameRing DEF RingInv
<1>5. CompositorTypeOK'
  <2>1. hades' \in [pc : {"wait", "take", "send"}, task : Task \cup {NoTask},
                    todo : SUBSET Window, window : Window \cup {NoWindow}]
    BY <1>1, <1>2, <1>3
  <2> QED
    BY <1>1, <1>2, <1>4, <2>1 DEF CompositorTypeOK, RingInv, OneRing
<1>6. \A u \in Task, w \in Window : Taken(u, w) => Taken(u, w)'
  BY <1>1 DEF Taken, HadesHas
<1>7. Interrupted' = Interrupted
  BY <1>1 DEF Interrupted, Live
<1>8. OwnersInv'
  BY <1>1 DEF OwnersInv
<1>9. DeathInv'
  <2>1. tcb[t] = "freed" /\ \A i \in DOMAIN hades_queue' : hades_queue'[i] # t
    BY <1>2 DEF DeathInv
  <2>2. \A i, j \in DOMAIN hades_queue' : hades_queue'[i] = hades_queue'[j] => i = j
    <3> TAKE i, j \in DOMAIN hades_queue'
    <3> HAVE hades_queue'[i] = hades_queue'[j]
    <3>1. i + 1 = j + 1
      BY <1>2 DEF DeathInv
    <3> QED
      BY <3>1, <1>2
  <2>3. \A w \in Window, u \in Task : task_info[w] = u => tcb[u] # "gone" /\ (u = t => w \in recorded[t])
    BY DEF DeathInv, OwnersInv
  <2>4. \A i \in DOMAIN hades_queue' : tcb[hades_queue'[i]] = "freed"
    BY <1>2 DEF DeathInv
  <2> QED
    BY <1>1, <1>2, <1>3, <2>1, <2>2, <2>3, <2>4 DEF DeathInv, HadesHas
<1>10. MessagesInv'
  <2>1. ASSUME NEW i \in Queued, compositor_queue[i].caller = NoTask
        PROVE  (\E u \in Task : compositor_queue[i].window \in recorded[u] /\ Taken(u, compositor_queue[i].window))'
    <3>1. PICK u \in Task : compositor_queue[i].window \in recorded[u] /\ Taken(u, compositor_queue[i].window)
      BY <2>1 DEF MessagesInv
    <3>2. Taken(u, compositor_queue[i].window)'
      BY <1>1, <1>3, <1>6, <3>1
    <3> QED
      BY <1>1, <3>1, <3>2
  <2> QED
    BY <1>1, <2>1 DEF MessagesInv, Queued
<1>11. EnterInv'
  BY <1>1, <1>4 DEF EnterInv, Queued
<1>12. FreedInv'
  BY <1>1, <1>3, <1>6, <1>7 DEF FreedInv
<1>13. CommandsFindTheirWindow'
  BY <1>1, <1>7 DEF CommandsFindTheirWindow
<1> QED
  BY <1>4, <1>5, <1>8, <1>9, <1>10, <1>11, <1>12, <1>13

LEMMA HadesTakesKeeps ==
    ASSUME CompositorInv, HadesTakesWindow
    PROVE  CompositorInv'
<1> USE DEF CompositorInv, RestInv
<1>1. PICK w \in hades.todo :
         IF life[w] = "freed" THEN Faulty("used a freed window") ELSE
         /\ task_info' = [task_info EXCEPT ![w] = NoTask]
         /\ hades' = [hades EXCEPT !.pc = "send", !.window = w, !.todo = @ \ {w}]
         /\ HadesOnly
         /\ UNCHANGED <<compositor_queue, deathVars, kills, fault>>
  BY DEF HadesTakesWindow
<1>2. CASE life[w] = "freed"
  BY <1>1, <1>2, FaultKeeps DEF Faults
<1>3. CASE life[w] # "freed"
  <2> DEFINE t == hades.task
  <2>1. /\ task_info' = [task_info EXCEPT ![w] = NoTask]
        /\ hades' = [hades EXCEPT !.pc = "send", !.window = w, !.todo = @ \ {w}]
        /\ UNCHANGED <<ringVars, life, recorded, app, compositor, notified, compositor_queue, tcb, hades_queue, kills, fault>>
        /\ hades.pc = "take"
    BY <1>1, <1>3 DEF HadesOnly, HadesTakesWindow, HadesAt, deathVars
  <2>2. /\ recorded \in [Task -> SUBSET Window] /\ NoTask \notin Task
        /\ task_info \in [Window -> Task \cup {NoTask}]
        /\ hades \in [pc : {"wait", "take", "send"}, task : Task \cup {NoTask},
                      todo : SUBSET Window, window : Window \cup {NoWindow}]
    BY CompositorAssumption DEF CompositorTypeOK
  <2>3. w \in Window /\ t \in Task /\ tcb[t] = "freed" /\ w \in recorded[t] /\ hades.todo \subseteq recorded[t]
    BY <1>1, <2>1, <2>2 DEF DeathInv
  <2>4. /\ hades'.pc = "send" /\ hades'.task = t /\ hades'.window = w /\ hades'.todo = hades.todo \ {w}
        /\ hades' \in [pc : {"wait", "take", "send"}, task : Task \cup {NoTask},
                       todo : SUBSET Window, window : Window \cup {NoWindow}]
    BY <2>1, <2>2, <2>3
  <2>5. /\ task_info' \in [Window -> Task \cup {NoTask}] /\ task_info'[w] = NoTask
        /\ \A v \in Window : v # w => task_info'[v] = task_info[v]
    BY <2>1, <2>2, <2>3
  <2>6. RingInv' /\ UNCHANGED linked
    BY <2>1, SameRing DEF RingInv
  <2>7. CompositorTypeOK'
    BY <2>1, <2>4, <2>5, <2>6 DEF CompositorTypeOK, RingInv, OneRing
  <2>8. \A u \in Task, v \in Window : Taken(u, v) => Taken(u, v)'
    BY <1>1, <2>1, <2>3, <2>4 DEF Taken, HadesHas
  <2>9. Interrupted' = Interrupted
    BY <2>1 DEF Interrupted, Live
  <2>10. OwnersInv'
    <3>1. \A v \in Window, u \in Task : task_info'[v] = u => v \in recorded[u]
      BY <2>2, <2>5 DEF OwnersInv
    <3>2. \A u \in Task : app[u].pc \in {"send", "wait"} /\ app[u].command = "destroy" => task_info'[app[u].window] = NoTask
      BY <2>2, <2>5 DEF OwnersInv
    <3> QED
      BY <2>1, <3>1, <3>2 DEF OwnersInv
  <2>11. DeathInv'
    <3>1. \A v \in Window, u \in Task : task_info'[v] = u => tcb[u] # "gone" /\ (u = t => v \in hades.todo \ {w})
      BY <2>1, <2>2, <2>5 DEF DeathInv, HadesHas
    <3>2. \A i \in DOMAIN hades_queue : tcb[hades_queue[i]] = "freed" /\ hades_queue[i] # t
      BY <2>1 DEF DeathInv, HadesHas
    <3> QED
      BY <1>1, <2>1, <2>3, <2>4, <3>1, <3>2 DEF DeathInv, HadesHas
  <2>12. MessagesInv'
    <3>1. ASSUME NEW i \in Queued, compositor_queue[i].caller = NoTask
          PROVE  (\E u \in Task : compositor_queue[i].window \in recorded[u] /\ Taken(u, compositor_queue[i].window))'
      <4>1. PICK u \in Task : compositor_queue[i].window \in recorded[u] /\ Taken(u, compositor_queue[i].window)
        BY <3>1 DEF MessagesInv
      <4>2. compositor_queue[i].window \in Window
        BY <2>2, <4>1
      <4>3. Taken(u, compositor_queue[i].window)'
        BY <2>1, <2>8, <4>1, <4>2
      <4> QED
        BY <2>1, <4>1, <4>3
    <3> QED
      BY <2>1, <3>1 DEF MessagesInv, Queued
  <2>13. EnterInv'
    BY <2>1, <2>6 DEF EnterInv, Queued
  <2>14. FreedInv'
    BY <2>1, <2>2, <2>8, <2>9 DEF FreedInv
  <2>15. CommandsFindTheirWindow'
    BY <2>1, <2>9 DEF CommandsFindTheirWindow
  <2> QED
    BY <2>6, <2>7, <2>10, <2>11, <2>12, <2>13, <2>14, <2>15
<1> QED
  BY <1>2, <1>3

(* task_info_delete: no window names the dead any more.                    *)
LEMMA HadesDeletesKeeps ==
    ASSUME CompositorInv, HadesDeletesInfo
    PROVE  CompositorInv'
<1> USE DEF CompositorInv, RestInv
<1> DEFINE t == hades.task
<1>1. /\ hades.pc = "take" /\ hades.todo = {} /\ tcb' = [tcb EXCEPT ![t] = "gone"]
      /\ hades' = [hades EXCEPT !.pc = "wait", !.task = NoTask]
      /\ UNCHANGED <<ringVars, life, recorded, app, compositor, notified, task_info, compositor_queue, hades_queue, kills, fault>>
  BY DEF HadesDeletesInfo, HadesAt, HadesOnly
<1>2. /\ hades' \in [pc : {"wait", "take", "send"}, task : Task \cup {NoTask},
                     todo : SUBSET Window, window : Window \cup {NoWindow}]
      /\ hades'.pc = "wait" /\ recorded \in [Task -> SUBSET Window] /\ NoTask \notin Task
      /\ hades_queue \in Seq(Task)
  BY <1>1, CompositorAssumption DEF CompositorTypeOK
<1>3. /\ t \in Task /\ tcb[t] = "freed" /\ tcb' \in [Task -> {"live", "freed", "gone"}]
      /\ tcb'[t] = "gone" /\ \A u \in Task : u # t => tcb'[u] = tcb[u]
  BY <1>1 DEF DeathInv, CompositorTypeOK
<1>4. RingInv' /\ UNCHANGED linked
  BY <1>1, SameRing DEF RingInv
<1>5. CompositorTypeOK'
  BY <1>1, <1>2, <1>3, <1>4 DEF CompositorTypeOK, RingInv, OneRing
<1>6. \A u \in Task, w \in Window : Taken(u, w) => Taken(u, w)'
  BY <1>1, <1>3 DEF Taken, HadesHas
<1>7. Interrupted' = Interrupted
  BY <1>1, <1>3 DEF Interrupted, Live
<1>8. OwnersInv'
  BY <1>1 DEF OwnersInv
<1>9. DeathInv'
  <2>1. \A w \in Window, u \in Task : task_info[w] = u => tcb'[u] # "gone"
    BY <1>1, <1>3 DEF DeathInv, HadesHas
  <2>2. \A i \in DOMAIN hades_queue : tcb'[hades_queue[i]] = "freed"
    BY <1>1, <1>2, <1>3 DEF DeathInv, HadesHas
  <2> QED
    BY <1>1, <1>2, <2>1, <2>2 DEF DeathInv, HadesHas
<1>10. MessagesInv'
  <2>1. ASSUME NEW i \in Queued, compositor_queue[i].caller = NoTask
        PROVE  (\E u \in Task : compositor_queue[i].window \in recorded[u] /\ Taken(u, compositor_queue[i].window))'
    <3>1. PICK u \in Task : compositor_queue[i].window \in recorded[u] /\ Taken(u, compositor_queue[i].window)
      BY <2>1 DEF MessagesInv
    <3>2. Taken(u, compositor_queue[i].window)'
      BY <1>1, <1>2, <1>6, <3>1
    <3> QED
      BY <1>1, <3>1, <3>2
  <2> QED
    BY <1>1, <2>1 DEF MessagesInv, Queued
<1>11. EnterInv'
  BY <1>1, <1>4 DEF EnterInv, Queued
<1>12. FreedInv'
  BY <1>1, <1>2, <1>6, <1>7 DEF FreedInv
<1>13. CommandsFindTheirWindow'
  BY <1>1, <1>7 DEF CommandsFindTheirWindow
<1> QED
  BY <1>4, <1>5, <1>8, <1>9, <1>10, <1>11, <1>12, <1>13

(* window_destroy_task: of a window whose owner was not killed inside      *)
(* window_destroy, Hades' command is the only destruction.                 *)
LEMMA HadesSendsKeeps ==
    ASSUME CompositorInv, HadesSends
    PROVE  CompositorInv'
<1> USE DEF CompositorInv, RestInv
<1>0. PICK t \in Task : t = hades.task
  BY DEF HadesSends, HadesAt, DeathInv
<1>01. PICK w \in Window : w = hades.window
  BY DEF HadesSends, HadesAt, DeathInv, CompositorTypeOK
<1> DEFINE m == [command |-> "destroy", window |-> w, caller |-> NoTask]
           n == Len(compositor_queue)
<1>1. /\ hades.pc = "send" /\ QueueHasRoom /\ compositor_queue' = Append(compositor_queue, m)
      /\ hades.task = t /\ hades.window = w
      /\ hades' = [hades EXCEPT !.pc = "take", !.window = NoWindow]
      /\ UNCHANGED <<ringVars, life, recorded, app, compositor, notified, task_info, tcb, hades_queue, kills, fault>>
  BY <1>0, <1>01 DEF HadesSends, HadesAt, Send, HadesOnly, deathVars
<1>2. /\ recorded \in [Task -> SUBSET Window] /\ NoTask \notin Task
      /\ life \in [Window -> {"unmade", "made", "freed"}]
      /\ hades \in [pc : {"wait", "take", "send"}, task : Task \cup {NoTask},
                    todo : SUBSET Window, window : Window \cup {NoWindow}]
  BY CompositorAssumption DEF CompositorTypeOK
<1>3. /\ t \in Task /\ tcb[t] = "freed" /\ w \in recorded[t] /\ w \in Window /\ w \notin hades.todo
      /\ life[w] # "unmade"
  BY <1>0, <1>01, <1>1, <1>2 DEF DeathInv, OwnersInv
<1>4. /\ hades'.pc = "take" /\ hades'.task = t /\ hades'.todo = hades.todo
      /\ hades' \in [pc : {"wait", "take", "send"}, task : Task \cup {NoTask},
                     todo : SUBSET Window, window : Window \cup {NoWindow}]
  BY <1>1, <1>2
<1>5. m \in Message /\ m.command = "destroy" /\ m.window = w /\ m.caller = NoTask
  BY <1>3 DEF Message, Command
<1> HIDE DEF m
<1>6. /\ compositor_queue' \in Seq(Message) /\ Len(compositor_queue') <= QueueLen
      /\ n \in Nat /\ Len(compositor_queue') = n + 1
      /\ Queued = 1..n /\ Queued' = 1..(n + 1)
      /\ \A i \in Queued' : \/ i \in Queued /\ compositor_queue'[i] = compositor_queue[i]
                            \/ i = n + 1 /\ compositor_queue'[i] = m
  BY <1>1, <1>5, CommandSent
<1> HIDE DEF n
<1>7. /\ \A u \in Task, v \in Window : Taken(u, v) => Taken(u, v)'
      /\ Taken(t, w)' /\ ~Taken(t, w)
  BY <1>1, <1>3, <1>4 DEF Taken, HadesHas
<1>8. Interrupted' = Interrupted
  BY <1>1 DEF Interrupted, Live
<1>9. RingInv' /\ UNCHANGED linked
  BY <1>1, SameRing DEF RingInv
<1>10. CompositorTypeOK'
  BY <1>1, <1>4, <1>6, <1>9 DEF CompositorTypeOK, RingInv, OneRing
<1>11. OwnersInv'
  BY <1>1 DEF OwnersInv
<1>12. DeathInv'
  BY <1>1, <1>3, <1>4 DEF DeathInv, HadesHas
<1>13. MessagesInv'
  <2>1. ASSUME NEW i \in Queued', compositor_queue'[i].caller # NoTask
        PROVE  LET c == compositor_queue'[i] IN
               /\ app[c.caller].pc = "wait" /\ ~notified[c.caller]
               /\ app[c.caller].command = c.command /\ app[c.caller].window = c.window
               /\ \A j \in Queued' : compositor_queue'[j].caller = c.caller => i = j
    <3>1. i \in Queued /\ compositor_queue'[i] = compositor_queue[i]
      BY <2>1, <1>5, <1>6
    <3>2. \A j \in Queued' : compositor_queue'[j].caller = compositor_queue'[i].caller
                           => j \in Queued /\ compositor_queue'[j] = compositor_queue[j]
      BY <2>1, <1>5, <1>6
    <3> QED
      BY <2>1, <3>1, <3>2 DEF MessagesInv
  <2>2. ASSUME NEW i \in Queued', compositor_queue'[i].caller = NoTask
        PROVE  (compositor_queue[i].command = "destroy"
                /\ \E u \in Task : compositor_queue[i].window \in recorded[u] /\ Taken(u, compositor_queue[i].window))'
    <3>1. CASE i \in Queued /\ compositor_queue'[i] = compositor_queue[i]
      <4>1. PICK u \in Task : compositor_queue[i].window \in recorded[u] /\ Taken(u, compositor_queue[i].window)
        BY <2>2, <3>1 DEF MessagesInv
      <4>2. compositor_queue[i].window \in Window /\ compositor_queue[i].command = "destroy"
        BY <2>2, <3>1, QueueFacts DEF Message, MessagesInv
      <4>3. Taken(u, compositor_queue[i].window)'
        BY <3>1, <4>1, <4>2, <1>7
      <4> QED
        BY <3>1, <4>1, <4>2, <4>3, <1>1
    <3>2. CASE i = n + 1 /\ compositor_queue'[i] = m
      <4>1. Taken(t, compositor_queue[i].window)'
        BY <3>2, <1>1, <1>4, <1>5, <1>7 DEF Taken, HadesHas
      <4> QED
        BY <3>2, <4>1, <1>1, <1>3, <1>5
    <3> QED
      BY <3>1, <3>2, <1>6
  <2> QED
    BY <2>1, <2>2, <1>1 DEF MessagesInv
<1>14. EnterInv'
  <2>1. \A i \in Queued' : compositor_queue'[i].command = "create" => compositor_queue'[i].window \notin linked
    BY <1>5, <1>6 DEF EnterInv
  <2> QED
    BY <1>1, <1>9, <2>1 DEF EnterInv
<1>15. FreedInv'
  BY <1>1, <1>2, <1>7, <1>8 DEF FreedInv
<1>16. ASSUME w \notin Interrupted
       PROVE  /\ life[w] = "made"
              /\ \A i \in Queued : compositor_queue[i].window = w => compositor_queue[i].command # "destroy"
  <2>1. ~(app[t].pc = "wait" /\ app[t].command = "destroy" /\ app[t].window = w)
    BY <1>3, <1>16 DEF Interrupted, Live
  <2>2. life[w] # "freed"
    BY <1>3, <1>7, <1>16, <2>1 DEF FreedInv
  <2>3. ASSUME NEW i \in Queued, compositor_queue[i].window = w, compositor_queue[i].command = "destroy"
        PROVE  FALSE
    <3>1. PICK u \in Task : /\ w \in recorded[u]
                            /\ \/ compositor_queue[i].caller = u
                               \/ compositor_queue[i].caller = NoTask /\ Taken(u, w)
      BY <2>3, QueuedWindow
    <3>2. u = t /\ compositor_queue[i].caller = t
      BY <1>3, <1>7, <3>1 DEF OwnersInv
    <3>3. app[t].pc = "wait" /\ app[t].command = "destroy" /\ app[t].window = w
      BY <1>2, <1>3, <2>3, <3>2 DEF MessagesInv
    <3> QED
      BY <2>1, <3>3
  <2> QED
    BY <1>2, <1>3, <2>2, <2>3
<1>17. CommandsFindTheirWindow'
  <2> SUFFICES ASSUME NEW i \in 1..(n + 1), compositor_queue'[i].window \notin Interrupted
               PROVE  /\ life[compositor_queue'[i].window] = "made"
                      /\ \A j \in 1..(i - 1) : compositor_queue'[j].window = compositor_queue'[i].window
                                               => compositor_queue'[j].command # "destroy"
    BY <1>1, <1>6, <1>8 DEF CommandsFindTheirWindow
  <2>1. ASSUME i \in Queued
        PROVE  /\ i \in 1..Len(compositor_queue) /\ compositor_queue'[i] = compositor_queue[i]
               /\ \A j \in 1..(i - 1) : compositor_queue'[j] = compositor_queue[j]
    BY <2>1, <1>6 DEF n
  <2>2. CASE i \in Queued
    BY <2>1, <2>2 DEF CommandsFindTheirWindow
  <2>3. CASE i = n + 1 /\ compositor_queue'[i] = m
    <3>1. \A j \in 1..(i - 1) : j \in Queued /\ compositor_queue'[j] = compositor_queue[j]
      BY <2>3, <1>6
    <3> QED
      BY <2>3, <3>1, <1>5, <1>16
  <2> QED
    BY <2>2, <2>3, <1>6
<1> QED
  BY <1>9, <1>10, <1>11, <1>12, <1>13, <1>14, <1>15, <1>17
-----------------------------------------------------------------------------
LEMMA CompositorInitInv == CompositorInit => CompositorInv
<1> SUFFICES ASSUME CompositorInit PROVE CompositorInv
  OBVIOUS
<1>1. /\ NoTask \notin Task /\ QueueLen \in Nat /\ HadesQueueLen \in Nat
      /\ 0 \in 0..CommandsPerFrame /\ 0 \in 0..MaxKills
  BY CompositorAssumption
<1>2. /\ RingInit /\ life = [w \in Window |-> "unmade"] /\ task_info = [w \in Window |-> NoTask]
      /\ recorded = [t \in Task |-> {}] /\ compositor_queue = <<>> /\ app = [t \in Task |-> Idle]
      /\ compositor = [pc |-> "commands", processed |-> 0, window |-> NoWindow, victim |-> NoTask]
      /\ tcb = [t \in Task |-> "live"] /\ notified = [t \in Task |-> FALSE] /\ hades_queue = <<>>
      /\ hades = [pc |-> "wait", task |-> NoTask, todo |-> {}, window |-> NoWindow]
      /\ kills = 0 /\ fault = "none"
  BY DEF CompositorInit
<1>3. OneRing /\ linked = {}
  <2>1. RingTypeOK /\ linked = {} /\ cur_num_windows = 0 /\ window_stack = NoWindow
    BY <1>2 DEF RingInit, RingTypeOK
  <2> DEFINE s == [i \in 1..0 |-> NoWindow]
  <2>2. s \in [1..0 -> {}]
    OBVIOUS
  <2> HIDE DEF s
  <2>3. s \in [1..cur_num_windows -> linked] /\ Around(s)
    BY <2>1, <2>2 DEF Around
  <2>4. window_stack \in linked \/ (window_stack = NoWindow /\ linked = {})
    BY <2>1
  <2> QED
    BY <2>1, <2>3, <2>4 DEF OneRing
<1>4. DOMAIN compositor_queue = {} /\ DOMAIN hades_queue = {} /\ Len(compositor_queue) = 0 /\ Len(hades_queue) = 0
      /\ compositor_queue \in Seq(Message) /\ hades_queue \in Seq(Task)
  BY <1>2
<1>5. CompositorTypeOK
  <2>1. Idle \in [pc : {"run", "create", "send", "wait"}, command : Command, window : Window \cup {NoWindow}]
    BY DEF Idle, Command
  <2> QED
    BY <1>1, <1>2, <1>3, <1>4, <2>1 DEF CompositorTypeOK, OneRing
<1>6. \A t \in Task : app[t].pc = "run"
  BY <1>2 DEF Idle
<1>7. OwnersInv /\ DeathInv
  BY <1>1, <1>2, <1>4, <1>6 DEF OwnersInv, DeathInv, HadesHas
<1>8. MessagesInv
  BY <1>2, <1>4, <1>6 DEF MessagesInv, Queued
<1>9. EnterInv
  BY <1>3, <1>4, <1>6 DEF EnterInv, Queued
<1>10. FreedInv
  BY <1>2 DEF FreedInv
<1>11. CommandsFindTheirWindow
  BY <1>4 DEF CommandsFindTheirWindow
<1>12. RingInv
  BY <1>2, <1>3 DEF RingInv
<1> QED
  BY <1>5, <1>7, <1>8, <1>9, <1>10, <1>11, <1>12 DEF CompositorInv, RestInv

LEMMA CompositorStep == CompositorInv /\ [Next]_vars => CompositorInv'
<1> SUFFICES ASSUME CompositorInv, [Next]_vars PROVE CompositorInv'
  OBVIOUS
<1>1. ASSUME NEW t \in Task, TaskStep(t)
      PROVE  CompositorInv'
  BY <1>1, CallsKeep, MakeKeeps, SendKeeps, ReturnKeeps, ExitKeeps DEF TaskStep
<1>2. CASE Frame
  BY <1>2, ExecuteKeeps, ReadKeeps, FrameKeeps, CrossDeleteKeeps, DrawKeeps DEF Frame
<1>3. CASE HadesStep
  BY <1>3, HadesReceiveKeeps, HadesTakesKeeps, HadesSendsKeeps, HadesDeletesKeeps DEF HadesStep
<1>4. CASE UNCHANGED vars
  <2>1. /\ UNCHANGED <<clientVars, linked, compositor_queue, deathVars, notified, hades>>
        /\ UNCHANGED <<ringVars, compositor, kills, fault>>
    BY <1>4 DEF vars, ringVars
  <2>2. RingInv'
    BY <2>1, SameRing DEF CompositorInv, RingInv
  <2>3. RestInv'
    BY <2>1, CompositorMoves DEF CompositorInv
  <2>4. CompositorTypeOK'
    BY <2>1, <2>2, ZenonT(60) DEF CompositorInv, CompositorTypeOK, RingInv, OneRing, clientVars, deathVars
  <2> QED
    BY <2>2, <2>3, <2>4 DEF CompositorInv
<1> QED
  BY <1>1, <1>2, <1>3, <1>4 DEF Next

(* The inductive invariant of the compositor, its clients and Hades.       *)
THEOREM CompositorInvariance == SafetySpec => []CompositorInv
<1>1. CompositorInit => CompositorInv
  BY CompositorInitInv
<1>2. CompositorInv /\ [Next]_vars => CompositorInv'
  BY CompositorStep
<1> QED
  BY <1>1, <1>2, PTL DEF SafetySpec

(* push_window and remove_window: the windows in use are one ring, the     *)
(* focus is on it and cur_num_windows is their number, whatever windows    *)
(* come, go and are killed.                                                *)
THEOREM RingStaysSound == SafetySpec => []RingIsSound
<1>1. CompositorInv => RingIsSound
  BY RingSound DEF CompositorInv, RingInv
<1> QED
  BY <1>1, CompositorInvariance, PTL

(* WINDOW_DESTROY and window_destroy_task: no command finds its window     *)
(* freed, or about to be by a command before it, unless the owner was      *)
(* killed inside window_destroy.                                           *)
THEOREM CommandsAreInTime == SafetySpec => []CommandsFindTheirWindow
<1>1. CompositorInv => CommandsFindTheirWindow
  BY DEF CompositorInv, RestInv
<1> QED
  BY <1>1, CompositorInvariance, PTL

(* What the frame loop follows is not freed: the windows of the ring, and  *)
(* the task_info that a window names.                                      *)
THEOREM RingIsAlive == SafetySpec => []RingLeadsToNothingFreed
<1>1. CompositorInv => RingLeadsToNothingFreed
  <2> SUFFICES ASSUME CompositorInv PROVE RingLeadsToNothingFreed
    OBVIOUS
  <2>1. CompositorTypeOK /\ \A w \in linked : life[w] = "made"
    BY DEF CompositorInv, RestInv, EnterInv
  <2>2. task_info \in [Window -> Task \cup {NoTask}]
    BY <2>1 DEF CompositorTypeOK
  <2>3. \A w \in Window, t \in Task : task_info[w] = t => tcb[t] # "gone"
    BY DEF CompositorInv, RestInv, DeathInv
  <2> QED
    BY <2>1, <2>2, <2>3 DEF RingLeadsToNothingFreed
<1> QED
  BY <1>1, CompositorInvariance, PTL

(* A command for a freed window names an interrupted one (compositor: the  *)
(* switch over commands).                                                  *)
LEMMA CommandForFreed ==
    ASSUME CompositorInv, compositor_queue # <<>>,
           life[Head(compositor_queue).window] = "freed"
    PROVE  Head(compositor_queue).window \in Interrupted
<1> DEFINE m == Head(compositor_queue)
<1>1. compositor_queue \in Seq(Message)
  BY DEF CompositorInv, CompositorTypeOK
<1>2. m = compositor_queue[1] /\ m \in Message /\ 1 \in 1..Len(compositor_queue)
  BY <1>1
<1>3. m.window \in Window
  BY <1>2 DEF Message
<1> QED
  BY <1>2, <1>3 DEF CompositorInv, RestInv, CommandsFindTheirWindow

(* Once a fault is recorded nothing moves.                                 *)
LEMMA NobodyGoesOn ==
    ASSUME ~Sane, [Next]_vars
    PROVE  UNCHANGED vars
BY DEF Next, TaskStep, CheckRoom, Make, Destroy, Change, SendCommand, Return, Exit, Does,
       Frame, Execute, ReadsFreedCaller, NoMoreCommands, NoKey, AltTab, Cross, CrossDelete, DropOrphan, SeeOwner,
       DrawWindow, At, HadesStep, HadesReceive, HadesTakesWindow, HadesSends, HadesDeletesInfo,
       HadesAt

(* The step that records the use of a freed window finds one that a task   *)
(* was interrupted on (the switch over commands; window_destroy_task).     *)
LEMMA FreedIsFound ==
    ASSUME CompositorInv, Sane, [Next]_vars, fault' = "used a freed window"
    PROVE  /\ UNCHANGED <<app, tcb>>
           /\ Interrupted # {}
<1> USE DEF Sane
<1>1. CASE Execute
  <2> DEFINE m == Head(compositor_queue)
             w == m.window
  <2>1. /\ Broken(m) = "used a freed window" /\ Faulty(Broken(m)) /\ compositor_queue # <<>>
    BY <1>1 DEF Execute, Faulty, Broken
  <2>2. life[w] = "freed"
    BY <2>1 DEF Broken
  <2>4. w \in Interrupted
    BY <2>1, <2>2, CommandForFreed
  <2> QED
    BY <2>1, <2>4 DEF Faulty, clientVars, deathVars
<1>2. CASE HadesTakesWindow
  <2>1. PICK w \in hades.todo : /\ life[w] = "freed" /\ Faulty("used a freed window")
                                /\ hades.pc = "take"
    BY <1>2 DEF HadesTakesWindow, HadesAt
  <2>2. hades.task \in Task /\ tcb[hades.task] = "freed" /\ w \in recorded[hades.task]
    BY <2>1 DEF CompositorInv, RestInv, DeathInv
  <2>3. ~Taken(hades.task, w)
    BY <2>1, <2>2 DEF Taken
  <2>4. w \in Window
    BY <2>2 DEF CompositorInv, CompositorTypeOK
  <2>5. w \in Interrupted
    <3> SUFFICES ASSUME w \notin Interrupted PROVE FALSE
      OBVIOUS
    <3>1. app[hades.task].pc = "wait" /\ app[hades.task].command = "destroy" /\ app[hades.task].window = w
      BY <2>1, <2>2, <2>3 DEF CompositorInv, RestInv, FreedInv
    <3> QED
      BY <2>2, <2>4, <3>1 DEF Interrupted, Live
  <2> QED
    BY <2>1, <2>5 DEF Faulty, clientVars, deathVars
<1>3. CASE ReadsFreedCaller \/ CrossDelete \/ DrawWindow
  BY <1>3 DEF ReadsFreedCaller, CrossDelete, DrawWindow, Faulty
<1>4. CASE UNCHANGED fault
  BY <1>4
<1>5. ASSUME ~Execute, ~HadesTakesWindow, ~(ReadsFreedCaller \/ CrossDelete \/ DrawWindow)
      PROVE  UNCHANGED fault
  <2>1. CASE \E t \in Task : TaskStep(t)
    BY <2>1 DEF TaskStep, CheckRoom, Make, Destroy, Change, SendCommand, Return, Exit, ClientOnly
  <2>2. CASE Frame
    BY <1>5, <2>2 DEF Frame, NoMoreCommands, NoKey, AltTab, Cross, DropOrphan, SeeOwner
  <2>3. CASE HadesStep
    BY <1>5, <2>3 DEF HadesStep, HadesReceive, HadesSends, HadesDeletesInfo
  <2>4. CASE UNCHANGED vars
    BY <2>4 DEF vars
  <2> QED
    BY <2>1, <2>2, <2>3, <2>4 DEF Next
<1> QED
  BY <1>1, <1>2, <1>3, <1>4, <1>5

(* A step uses a freed window only if one waits in the ring or the queue   *)
(* whose owner was killed inside window_destroy, between the free by the   *)
(* compositor and list_remove (compositor: the switch over commands;       *)
(* window_destroy; window_destroy_task).                                   *)
THEOREM FreedUsesAreExplained == SafetySpec => []FreedUseHasACause
<1>1. CompositorInit => FreedUseHasACause
  BY DEF CompositorInit, FreedUseHasACause
<1>2. CompositorInv /\ FreedUseHasACause /\ [Next]_vars => FreedUseHasACause'
  <2> SUFFICES ASSUME CompositorInv, FreedUseHasACause, [Next]_vars, fault' = "used a freed window"
               PROVE  Interrupted' # {}
    BY DEF FreedUseHasACause
  <2>1. UNCHANGED <<app, tcb>> /\ Interrupted # {}
    <3>1. CASE Sane
      BY <3>1, FreedIsFound
    <3>2. CASE ~Sane
      BY <3>2, NobodyGoesOn DEF FreedUseHasACause, vars, clientVars, deathVars
    <3> QED
      BY <3>1, <3>2
  <2>2. Interrupted' = Interrupted
    BY <2>1 DEF Interrupted, Live
  <2> QED
    BY <2>1, <2>2
<1> QED
  BY <1>1, <1>2, CompositorInvariance, PTL DEF SafetySpec
-----------------------------------------------------------------------------
(* How many windows there can be.  A task has at most one on its way into  *)
(* the ring: since it found room, and until the compositor counts it.      *)
Coming == {t \in Task : \/ app[t].pc = "create"
                        \/ app[t].pc = "send" /\ app[t].command = "create"
                        \/ \E i \in Queued : /\ compositor_queue[i].command = "create"
                                             /\ compositor_queue[i].caller = t}
RoomInv == cur_num_windows + Cardinality(Coming) < MaxWindows + Cardinality(Task)

(* A step brings in a window, finds room for one, or neither.              *)
BringsIn  == /\ cur_num_windows' = cur_num_windows + 1
             /\ \E t \in Coming : Coming' \subseteq Coming \ {t}
FindsRoom == cur_num_windows' = cur_num_windows /\ cur_num_windows < MaxWindows
Neither   == cur_num_windows' <= cur_num_windows /\ Coming' \subseteq Coming

LEMMA SameComing ==
    ASSUME UNCHANGED <<app, compositor_queue>>
    PROVE  Coming' = Coming
BY DEF Coming, Queued

LEMMA TaskComes ==
    ASSUME CompositorInv, NEW t \in Task, TaskStep(t)
    PROVE  FindsRoom \/ Neither
<1>1. app \in [Task -> Doing] /\ cur_num_windows \in Nat
  BY DEF CompositorInv, CompositorTypeOK, RingTypeOK, Doing
<1>2. UNCHANGED cur_num_windows
  BY DEF TaskStep, CheckRoom, Make, Destroy, Change, SendCommand, Return, Exit, ClientOnly, ringVars
<1>3. CASE CheckRoom(t)
  BY <1>2, <1>3 DEF CheckRoom, FindsRoom
<1>4. CASE Make(t)
  <2>1. /\ app[t].pc = "create" /\ UNCHANGED compositor_queue
        /\ \A u \in Task : u # t => app'[u] = app[u]
    BY <1>1, <1>4 DEF Make, Does
  <2>2. Coming' \subseteq Coming
    BY <2>1 DEF Coming, Queued
  <2> QED
    BY <1>1, <1>2, <2>2 DEF Neither
<1>5. CASE Destroy(t) \/ Change(t) \/ Return(t)
  <2>1. /\ app'[t].pc # "create"
        /\ ~(app'[t].pc = "send" /\ app'[t].command = "create")
    <3>1. CASE Destroy(t)
      BY <1>1, <3>1 DEF Destroy, Call
    <3>2. CASE Change(t)
      BY <1>1, <3>2 DEF Change, Call
    <3>3. CASE Return(t)
      BY <1>1, <3>3 DEF Return, Idle
    <3> QED
      BY <1>5, <3>1, <3>2, <3>3
  <2>2. UNCHANGED compositor_queue /\ \A u \in Task : u # t => app'[u] = app[u]
    <3>1. CASE Destroy(t)
      BY <1>1, <3>1 DEF Destroy, Call
    <3>2. CASE Change(t)
      BY <1>1, <3>2 DEF Change, Call
    <3>3. CASE Return(t)
      BY <1>1, <3>3 DEF Return
    <3> QED
      BY <1>5, <3>1, <3>2, <3>3
  <2>3. Coming' \subseteq Coming
    BY <2>1, <2>2 DEF Coming, Queued
  <2> QED
    BY <1>1, <1>2, <2>3 DEF Neither
<1>6. CASE SendCommand(t)
  <2> DEFINE m == [command |-> app[t].command, window |-> app[t].window, caller |-> t]
  <2>1. /\ app[t].pc = "send" /\ compositor_queue' = Append(compositor_queue, m)
        /\ app' = [app EXCEPT ![t].pc = "wait"]
    BY <1>6 DEF SendCommand, Does, Send, Goes
  <2>2. app'[t].pc = "wait" /\ \A u \in Task : u # t => app'[u] = app[u]
    BY <1>1, <2>1 DEF Doing
  <2>3. compositor_queue \in Seq(Message)
    BY DEF CompositorInv, CompositorTypeOK
  <2>4. \A i \in Queued' : \/ i \in Queued /\ compositor_queue'[i] = compositor_queue[i]
                           \/ compositor_queue'[i] = m
    <3> HIDE DEF m
    <3> QED
      BY <2>1, <2>3 DEF Queued
  <2>5. m.command = app[t].command /\ m.caller = t
    OBVIOUS
  <2> HIDE DEF m
  <2>6. Coming' \subseteq Coming
    BY <2>1, <2>2, <2>4, <2>5 DEF Coming
  <2> QED
    BY <1>1, <1>2, <2>6 DEF Neither
<1>7. CASE Exit(t)
  BY <1>1, <1>2, <1>7, SameComing DEF Exit, Neither, clientVars
<1> QED
  BY <1>3, <1>4, <1>5, <1>6, <1>7 DEF TaskStep

LEMMA FrameComes ==
    ASSUME CompositorInv, Frame
    PROVE  BringsIn \/ Neither
<1>1. cur_num_windows \in Nat
  BY DEF CompositorInv, CompositorTypeOK, RingTypeOK
<1>2. ASSUME NEW w, NEW cleared, RemoveWindow(w, cleared)
      PROVE  cur_num_windows' <= cur_num_windows
  BY <1>1, <1>2 DEF RemoveWindow, ringVars
<1>3. CASE ~Execute
  <2>1. UNCHANGED <<app, compositor_queue>>
    BY <1>3 DEF Frame, FrameOnly, ReadsFreedCaller, NoMoreCommands, NoKey, AltTab, Cross, CrossDelete, DropOrphan,
                SeeOwner, DrawWindow, Faulty, clientVars
  <2>2. \/ UNCHANGED cur_num_windows
        \/ \E w, cleared : RemoveWindow(w, cleared)
    BY <1>3 DEF Frame, ReadsFreedCaller, NoMoreCommands, NoKey, AltTab, Cross, CrossDelete,
                DropOrphan, SeeOwner, DrawWindow, Faulty, SwitchWindow, ringVars
  <2>3. cur_num_windows' <= cur_num_windows
    BY <1>1, <1>2, <2>2
  <2> QED
    BY <2>1, <2>3, SameComing DEF Neither
<1>4. CASE Execute
  <2> DEFINE m == Head(compositor_queue)
             w == m.window
  <2>1. CASE Broken(m) # "none"
    <3>1. Faulty(Broken(m))
      BY <1>4, <2>1 DEF Execute
    <3> QED
      BY <1>1, <3>1, SameComing DEF Faulty, Neither, clientVars, ringVars
  <2>2. CASE Broken(m) = "none"
    <3>1. /\ compositor_queue # <<>> /\ compositor_queue' = Tail(compositor_queue) /\ UNCHANGED app
          /\ m.command = "create" => PushWindow(w)
          /\ m.command = "destroy" => RemoveWindow(w, TRUE)
          /\ m.command = "change" => UNCHANGED ringVars
      BY <1>4, <2>2 DEF Execute, FrameOnly
    <3>2. CompositorTypeOK
      BY DEF CompositorInv
    <3>3. /\ m = compositor_queue[1] /\ 1 \in Queued
          /\ \A i \in Queued' : i + 1 \in Queued /\ i + 1 # 1 /\ compositor_queue'[i] = compositor_queue[i + 1]
      BY <3>1, <3>2, CommandTaken
    <3>4. m.command \in {"create", "destroy", "change"} /\ m.caller \in Task \cup {NoTask}
      BY <3>2, <3>3, QueueFacts DEF Message, Command
    <3>5. Coming' \subseteq Coming
      BY <3>1, <3>3 DEF Coming
    <3>6. CASE m.command = "create"
      <4> DEFINE c == m.caller
      <4>1. c \in Task /\ app[c].pc = "wait" /\ \A j \in Queued : compositor_queue[j].caller = c => j = 1
        BY <3>3, <3>4, <3>6 DEF CompositorInv, RestInv, MessagesInv
      <4>2. c \in Coming
        BY <3>3, <3>6, <4>1 DEF Coming
      <4>3. c \notin Coming'
        BY <3>1, <3>3, <4>1 DEF Coming
      <4>4. cur_num_windows' = cur_num_windows + 1
        BY <3>1, <3>6 DEF PushWindow
      <4> QED
        BY <3>5, <4>2, <4>3, <4>4 DEF BringsIn
    <3>7. CASE m.command \in {"destroy", "change"}
      <4>1. RemoveWindow(w, TRUE) \/ UNCHANGED ringVars
        BY <3>1, <3>7
      <4>2. RemoveWindow(w, TRUE) => cur_num_windows' <= cur_num_windows
        BY <1>2
      <4>3. UNCHANGED ringVars => cur_num_windows' <= cur_num_windows
        BY <1>1 DEF ringVars
      <4>4. cur_num_windows' <= cur_num_windows
        BY <4>1, <4>2, <4>3
      <4> QED
        BY <3>5, <4>4 DEF Neither
    <3> QED
      BY <3>4, <3>6, <3>7
  <2> QED
    BY <2>1, <2>2
<1> QED
  BY <1>3, <1>4

LEMMA HadesBringsNone ==
    ASSUME CompositorInv, HadesStep
    PROVE  Neither
<1>1. cur_num_windows \in Nat /\ compositor_queue \in Seq(Message)
  BY DEF CompositorInv, CompositorTypeOK, RingTypeOK
<1>2. UNCHANGED <<cur_num_windows, app>>
  BY DEF HadesStep, HadesReceive, HadesTakesWindow, HadesSends, HadesDeletesInfo, HadesOnly, Faulty,
         clientVars, ringVars
<1>3. CASE HadesSends
  <2> DEFINE m == [command |-> "destroy", window |-> hades.window, caller |-> NoTask]
  <2>1. compositor_queue' = Append(compositor_queue, m) /\ m.command = "destroy"
    BY <1>3 DEF HadesSends, Send
  <2> HIDE DEF m
  <2>2. \A i \in Queued' : \/ i \in Queued /\ compositor_queue'[i] = compositor_queue[i]
                           \/ compositor_queue'[i].command = "destroy"
    BY <1>1, <2>1 DEF Queued
  <2>3. Coming' \subseteq Coming
    BY <1>2, <2>2 DEF Coming
  <2> QED
    BY <1>1, <1>2, <2>3 DEF Neither
<1>4. CASE ~HadesSends
  <2>1. UNCHANGED compositor_queue
    BY <1>4 DEF HadesStep, HadesReceive, HadesTakesWindow, HadesDeletesInfo, Faulty
  <2> QED
    BY <1>1, <1>2, <2>1, SameComing DEF Neither
<1> QED
  BY <1>3, <1>4

LEMMA RoomStep ==
    ASSUME IsFiniteSet(Task), CompositorInv, [Next]_vars, RoomInv
    PROVE  RoomInv'
<1>1. BringsIn \/ FindsRoom \/ Neither
  <2>1. CASE UNCHANGED vars
    <3>1. UNCHANGED <<app, compositor_queue, cur_num_windows>>
      BY <2>1 DEF vars, ringVars, clientVars
    <3>2. cur_num_windows \in Nat
      BY DEF CompositorInv, CompositorTypeOK, RingTypeOK
    <3> QED
      BY <3>1, <3>2, SameComing DEF Neither
  <2> QED
    BY <2>1, TaskComes, FrameComes, HadesBringsNone DEF Next
<1>2. /\ Coming \subseteq Task /\ Coming' \subseteq Task
      /\ cur_num_windows \in Nat /\ MaxWindows \in Nat
  BY CompositorAssumption DEF Coming, CompositorInv, CompositorTypeOK, RingTypeOK
<1>3. cur_num_windows' \in Nat
  BY CompositorStep DEF CompositorInv, CompositorTypeOK, RingTypeOK
<1> DEFINE C == Coming
           D == Coming'
<1>4. /\ IsFiniteSet(C) /\ IsFiniteSet(D)
      /\ Cardinality(C) \in Nat /\ Cardinality(D) \in Nat /\ Cardinality(Task) \in Nat
      /\ Cardinality(C) <= Cardinality(Task) /\ Cardinality(D) <= Cardinality(Task)
  <2> HIDE DEF C, D
  <2>1. C \subseteq Task /\ D \subseteq Task
    BY <1>2 DEF C, D
  <2> QED
    BY <2>1, FS_Subset, FS_CardinalityType
<1>5. CASE BringsIn
  <2>1. PICK t \in C : D \subseteq C \ {t} /\ cur_num_windows' = cur_num_windows + 1
    BY <1>5 DEF BringsIn
  <2> HIDE DEF C, D
  <2>2. IsFiniteSet(C \ {t}) /\ Cardinality(C \ {t}) = Cardinality(C) - 1
    BY <1>4, FS_RemoveElement
  <2>3. Cardinality(D) <= Cardinality(C) - 1
    BY <2>1, <2>2, FS_Subset
  <2>4. cur_num_windows + Cardinality(C) < MaxWindows + Cardinality(Task)
    BY DEF RoomInv, C
  <2>5. cur_num_windows' + Cardinality(D) < MaxWindows + Cardinality(Task)
    BY <1>2, <1>4, <2>1, <2>3, <2>4
  <2> QED
    BY <2>5 DEF RoomInv, D
<1>6. CASE FindsRoom
  <2> HIDE DEF C, D
  <2>1. cur_num_windows' + Cardinality(D) < MaxWindows + Cardinality(Task)
    BY <1>2, <1>4, <1>6 DEF FindsRoom
  <2> QED
    BY <2>1 DEF RoomInv, D
<1>7. CASE Neither
  <2>1. D \subseteq C /\ cur_num_windows' <= cur_num_windows
    BY <1>7 DEF Neither
  <2> HIDE DEF C, D
  <2>2. Cardinality(D) <= Cardinality(C)
    BY <1>4, <2>1, FS_Subset
  <2>3. cur_num_windows + Cardinality(C) < MaxWindows + Cardinality(Task)
    BY DEF RoomInv, C
  <2>4. cur_num_windows' + Cardinality(D) < MaxWindows + Cardinality(Task)
    BY <1>2, <1>3, <1>4, <2>1, <2>2, <2>3
  <2> QED
    BY <2>4 DEF RoomInv, D
<1> QED
  BY <1>1, <1>5, <1>6, <1>7

(* "Up to 10 windows" is passed by fewer than the number of tasks, however *)
(* their calls of window_create meet (window_create, push_window).         *)
THEOREM WindowsAreBounded == IsFiniteSet(Task) => (SafetySpec => []FewMoreThanMaxWindows)
<1> SUFFICES ASSUME IsFiniteSet(Task) PROVE SafetySpec => []FewMoreThanMaxWindows
  OBVIOUS
<1>1. CompositorInit => RoomInv
  <2> SUFFICES ASSUME CompositorInit PROVE RoomInv
    OBVIOUS
  <2>1. cur_num_windows = 0 /\ compositor_queue = <<>> /\ \A t \in Task : app[t].pc = "run"
    BY DEF CompositorInit, RingInit, Idle
  <2>2. Coming = {}
    BY <2>1 DEF Coming, Queued
  <2>3. Cardinality(Task) \in Nat /\ Cardinality(Coming) = 0 /\ MaxWindows \in Nat \ {0}
    BY <2>2, FS_EmptySet, FS_CardinalityType, CompositorAssumption
  <2> QED
    BY <2>1, <2>3 DEF RoomInv
<1>2. CompositorInv /\ RoomInv /\ [Next]_vars => RoomInv'
  BY RoomStep
<1>3. CompositorInv /\ RoomInv => FewMoreThanMaxWindows
  <2> SUFFICES ASSUME CompositorInv, RoomInv PROVE FewMoreThanMaxWindows
    OBVIOUS
  <2>1. Coming \subseteq Task
    BY DEF Coming
  <2>2. Cardinality(Coming) \in Nat /\ Cardinality(Task) \in Nat
    BY <2>1, FS_Subset, FS_CardinalityType
  <2>3. cur_num_windows \in Nat /\ MaxWindows \in Nat
    BY CompositorAssumption DEF CompositorInv, CompositorTypeOK, RingTypeOK
  <2> QED
    BY <2>2, <2>3 DEF RoomInv, FewMoreThanMaxWindows
<1> QED
  BY <1>1, <1>2, <1>3, CompositorInvariance, PTL DEF SafetySpec
-----------------------------------------------------------------------------
(* The ring implements the list.  What is recursive is dealt with by       *)
(* induction, in terms of the set of numbers that satisfy a formula.       *)
LEMMA SetInduction ==
    ASSUME NEW T, 0 \in T, \A n \in Nat : n \in T => n + 1 \in T
    PROVE  Nat \subseteq T
<1> SUFFICES ASSUME Nat \ T # {} PROVE FALSE
  OBVIOUS
<1> DEFINE R == OpToRel(<, Nat)
<1>1. \A x, y \in Nat : y < x => <<y, x>> \in R
  BY DEF OpToRel
<1>2. IsWellFoundedOn(R, Nat)
  BY NatLessThanWellFounded
<1> HIDE DEF R
<1>3. PICK n \in Nat \ T : \A y \in Nat \ T : ~(<<y, n>> \in R)
  BY <1>2, WFMin
<1>4. \A y \in Nat \ T : ~(y < n)
  BY <1>1, <1>3
<1>5. n # 0 /\ n - 1 \in Nat /\ n - 1 \in T
  BY <1>4
<1> QED
  BY <1>3, <1>5

(* There is one way to follow links from a given start.                    *)
Walk(r, n, nx) == /\ r = [i \in 1..n |-> r[i]]
                  /\ \A i \in 1..n : i < n => nx[r[i]] = r[i + 1]

LEMMA OneWalk ==
    ASSUME NEW n \in Nat, NEW nx, NEW r, NEW s, Walk(r, n, nx), Walk(s, n, nx), n # 0 => r[1] = s[1]
    PROVE  r = s
<1> USE DEF Walk
<1> DEFINE T == {k \in Nat : k + 1 \in 1..n => r[k + 1] = s[k + 1]}
<1>1. 0 \in T
  OBVIOUS
<1>2. ASSUME NEW k \in Nat, k \in T
      PROVE  k + 1 \in T
  <2> SUFFICES ASSUME (k + 1) + 1 \in 1..n PROVE r[(k + 1) + 1] = s[(k + 1) + 1]
    OBVIOUS
  <2>1. k + 1 \in 1..n /\ k + 1 < n
    OBVIOUS
  <2> QED
    BY <1>2, <2>1
<1> HIDE DEF T
<1>3. Nat \subseteq T
  BY <1>1, <1>2, SetInduction
<1>4. \A i \in 1..n : i - 1 \in T /\ (i - 1) + 1 = i
  BY <1>3
<1>5. \A i \in 1..n : r[i] = s[i]
  BY <1>4 DEF T
<1> QED
  BY <1>5

(* InOrder is the order in which the ring is linked.                       *)
OrderRead ==
    /\ InOrder \in [1..cur_num_windows -> linked]
    /\ Around(InOrder)
    /\ cur_num_windows # 0 => InOrder[1] = window_stack

LEMMA OrderIsRead == OneRing => OrderRead
<1> SUFFICES ASSUME OneRing PROVE OrderRead
  OBVIOUS
<1> DEFINE n == cur_num_windows
<1>1. n \in Nat
  BY DEF OneRing, RingTypeOK
<1>2. PICK s \in [1..n -> linked] : Around(s) /\ (n # 0 => s[1] = window_stack)
  <2>1. CASE window_stack \in linked
    BY <2>1, StartAnywhere
  <2>2. CASE linked = {}
    <3>1. PICK s \in [1..n -> linked] : Around(s)
      BY DEF OneRing
    <3>2. n >= 1 => 1 \in 1..n /\ s[1] \in {}
      BY <2>2
    <3> QED
      BY <1>1, <3>1, <3>2
  <2> QED
    BY <2>1, <2>2 DEF OneRing
<1> HIDE DEF n
<1>3. /\ \A i \in 1..n : i < n => next[s[i]] = s[i + 1]
      /\ n # 0 => next[s[n]] = s[1]
  BY <1>1, <1>2 DEF Around, n
<1> DEFINE f == [k \in 0..n |-> IF k < n THEN s[k + 1] ELSE IF n = 0 THEN window_stack ELSE s[1]]
           at == CHOOSE g : g = [k \in 0..n |-> IF k = 0 THEN window_stack ELSE next[g[k - 1]]]
<1>4. f = [k \in 0..n |-> IF k = 0 THEN window_stack ELSE next[f[k - 1]]]
  <2>1. ASSUME NEW k \in 0..n
        PROVE  f[k] = IF k = 0 THEN window_stack ELSE next[f[k - 1]]
    <3>1. CASE k = 0
      BY <1>1, <1>2, <3>1
    <3>2. CASE k # 0
      <4>1. k - 1 \in 0..n /\ k - 1 < n /\ (k - 1) + 1 = k /\ k \in 1..n /\ f[k - 1] = s[k]
        BY <1>1, <3>2
      <4>2. CASE k < n
        BY <1>3, <3>2, <4>1, <4>2
      <4>3. CASE k = n
        BY <1>1, <1>3, <3>2, <4>1, <4>3
      <4> QED
        BY <1>1, <4>2, <4>3
    <3> QED
      BY <3>1, <3>2
  <2> QED
    BY <2>1
<1> HIDE DEF f
<1>5. at = [k \in 0..n |-> IF k = 0 THEN window_stack ELSE next[at[k - 1]]]
  BY <1>4
<1>6. InOrder = [i \in 1..n |-> at[i - 1]]
  <2>1. FromFocus = [i \in 0..n |-> at[i]]
    BY DEF FromFocus, n
  <2> HIDE DEF at
  <2>2. \A i \in 1..n : i - 1 \in 0..n
    BY <1>1
  <2> QED
    BY <2>1, <2>2 DEF InOrder, n
<1>7. /\ at[0] = window_stack /\ \A k \in 1..n : at[k] = next[at[k - 1]]
  <2>1. 0 \in 0..n /\ \A k \in 1..n : k \in 0..n /\ k # 0
    BY <1>1
  <2> HIDE DEF at
  <2> QED
    BY <1>5, <2>1
<1> HIDE DEF at
<1>8. \A i \in 1..n : /\ InOrder[i] = at[i - 1] /\ i - 1 \in 0..n
                      /\ i < n => InOrder[i + 1] = at[i] /\ i \in 0..n /\ i # 0
  BY <1>1, <1>6
<1>9. InOrder = s
  <2>1. ASSUME NEW i \in 1..n, i < n
        PROVE  next[InOrder[i]] = InOrder[i + 1]
    <3>1. InOrder[i] = at[i - 1]
      BY <1>8
    <3>2. InOrder[i + 1] = at[i]
      BY <1>8, <2>1
    <3>3. at[i] = next[at[i - 1]]
      BY <1>7
    <3> QED
      BY <3>1, <3>2, <3>3
  <2>2. n # 0 => InOrder[1] = s[1]
    <3>1. n # 0 => 1 \in 1..n /\ 1 - 1 = 0 /\ 0 \in 0..n
      BY <1>1
    <3> QED
      BY <1>1, <1>2, <1>7, <1>8, <3>1
  <2>3. InOrder = [i \in 1..n |-> InOrder[i]] /\ s = [i \in 1..n |-> s[i]]
    BY <1>6
  <2>4. Walk(InOrder, n, next) /\ Walk(s, n, next)
    BY <1>3, <2>1, <2>3 DEF Walk
  <2> QED
    BY <1>1, <2>2, <2>4, OneWalk
<1> QED
  BY <1>2, <1>9 DEF OrderRead, n

(* Sequences put together, as functions.                                   *)
LEMMA JoinFacts ==
    ASSUME NEW S, NEW r \in Seq(S), NEW s \in Seq(S)
    PROVE  /\ r \o s \in Seq(S) /\ Len(r \o s) = Len(r) + Len(s) /\ Len(r) \in Nat /\ Len(s) \in Nat
           /\ r \o s = [i \in 1..(Len(r) + Len(s)) |-> (r \o s)[i]]
           /\ \A i \in 1..(Len(r) + Len(s)) : (r \o s)[i] = IF i <= Len(r) THEN r[i] ELSE s[i - Len(r)]
<1>1. r \o s \in Seq(S) /\ Len(r \o s) = Len(r) + Len(s)
  BY ConcatProperties
<1>2. Len(r) \in Nat /\ Len(s) \in Nat
  OBVIOUS
<1>3. r \o s \in [1..(Len(r) + Len(s)) -> S]
  BY <1>1, LenProperties
<1>4. r \o s = [i \in 1..(Len(r) + Len(s)) |-> (r \o s)[i]]
  BY <1>3
<1>5. \A i \in 1..(Len(r) + Len(s)) : (r \o s)[i] = IF i <= Len(r) THEN r[i] ELSE s[i - Len(r)]
  BY ConcatProperties
<1> QED
  BY <1>1, <1>2, <1>4, <1>5

LEMMA PartFacts ==
    ASSUME NEW S, NEW s \in Seq(S), NEW a \in 1..(Len(s) + 1), NEW b \in (a - 1)..Len(s)
    PROVE  LET p == SubSeq(s, a, b) IN
           /\ p \in Seq(S) /\ Len(p) = b - a + 1
           /\ \A i \in 1..(b - a + 1) : p[i] = s[a + i - 1]
<1>1. Len(s) \in Nat
  OBVIOUS
<1> QED
  BY <1>1, SubSeqProperties

(* push_window.                                                            *)
LEMMA PushIsListed ==
    ASSUME OneRing, OrderRead, OneRing', OrderRead', NEW w \in Window \ linked, PushWindow(w)
    PROVE  List!Push(w)
<1> DEFINE n == cur_num_windows
           q == <<w>> \o InOrder
<1>1. /\ n \in Nat /\ InOrder \in [1..n -> linked] /\ cur_num_windows' = n + 1 /\ window_stack' = w
      /\ linked \subseteq Window /\ NoWindow \notin Window
      /\ next \in [Window -> Window \cup {NoWindow}]
  BY DEF OneRing, RingTypeOK, OrderRead, PushWindow, Window, NoWindow
<1>2. InOrder \in Seq(Window) /\ Len(InOrder) = n /\ <<w>> \in Seq(Window) /\ Len(<<w>>) = 1
  BY <1>1
<1>3. /\ q = [i \in 1..(n + 1) |-> q[i]]
      /\ \A i \in 1..(n + 1) : q[i] = IF i <= 1 THEN w ELSE InOrder[i - 1]
  BY <1>1, <1>2, JoinFacts
<1> HIDE DEF q, n
<1>4. /\ q[1] = w /\ \A i \in 1..n : q[i + 1] = InOrder[i]
  <2>1. 1 \in 1..(n + 1) /\ \A i \in 1..n : i + 1 \in 1..(n + 1) /\ ~(i + 1 <= 1) /\ (i + 1) - 1 = i
    BY <1>1
  <2> QED
    BY <1>3, <2>1
<1>5. Walk(q, n + 1, next')
  <2>1. CASE n = 0
    BY <1>3, <2>1 DEF Walk
  <2>2. CASE n # 0
    <3>1. n \in 1..n /\ 1 \in 1..n
      BY <1>1, <2>2
    <3>2. window_stack = InOrder[1] /\ prev[window_stack] = InOrder[n] /\ window_stack # NoWindow
      BY <1>1, <2>2, <3>1 DEF OrderRead, Around, n
    <3>3. next' = [next EXCEPT ![w] = InOrder[1], ![InOrder[n]] = w]
      BY <3>2 DEF PushWindow
    <3>4. next'[w] = InOrder[1] /\ \A i \in 1..n : i < n => next'[InOrder[i]] = InOrder[i + 1]
      <4>1. InOrder[n] # w /\ next'[w] = InOrder[1]
        BY <1>1, <3>1, <3>3
      <4>2. ASSUME NEW i \in 1..n, i < n
            PROVE  next'[InOrder[i]] = InOrder[i + 1]
        <5>1. next[InOrder[i]] = InOrder[i + 1]
          BY <4>2 DEF OrderRead, Around, n
        <5>2. InOrder[i] # InOrder[n]
          BY <3>1, <4>2 DEF OrderRead, Around, n
        <5>3. InOrder[i] # w /\ InOrder[i] \in Window
          BY <1>1
        <5> QED
          BY <1>1, <3>3, <5>1, <5>2, <5>3
      <4> QED
        BY <4>1, <4>2
    <3>5. ASSUME NEW i \in 1..(n + 1), i < n + 1
          PROVE  next'[q[i]] = q[i + 1]
      <4>1. CASE i = 1
        BY <1>4, <3>1, <3>4, <4>1
      <4>2. CASE i # 1
        <5>1. i - 1 \in 1..n /\ i - 1 < n /\ (i - 1) + 1 = i /\ i \in 1..n
          BY <1>1, <3>5, <4>2
        <5> QED
          BY <1>4, <3>4, <5>1
      <4> QED
        BY <4>1, <4>2
    <3> QED
      BY <1>3, <3>5 DEF Walk
  <2> QED
    BY <2>1, <2>2
<1>6. Walk(InOrder', n + 1, next') /\ InOrder'[1] = w
  <2>1. n + 1 # 0
    BY <1>1
  <2> QED
    BY <1>1, <2>1 DEF OrderRead, Around, Walk
<1>7. InOrder' = q
  BY <1>1, <1>4, <1>5, <1>6, OneWalk
<1>8. ~List!Listed(w)
  BY <1>1, <1>2 DEF List!Listed
<1> QED
  BY <1>7, <1>8 DEF List!Push, q

(* remove_window.                                                          *)
LEMMA RemoveIsListed ==
    ASSUME OneRing, OrderRead, OneRing', OrderRead', NEW w \in linked, NEW cleared \in BOOLEAN,
           RemoveWindow(w, cleared)
    PROVE  \E k \in 1..Len(InOrder) : List!Remove(k)
<1>1. PICK n \in Nat : n = cur_num_windows
  BY DEF OneRing, RingTypeOK
<1>2. PICK r \in [1..n -> linked] : r = InOrder
  BY <1>1 DEF OrderRead
<1>3. /\ \A i, j \in 1..n : r[i] = r[j] => i = j
      /\ \A i \in 1..n : /\ next[r[i]] = IF i < n THEN r[i + 1] ELSE r[1]
                         /\ prev[r[i]] = IF i > 1 THEN r[i - 1] ELSE r[n]
      /\ \E k \in 1..n : r[k] = w
  BY <1>1, <1>2 DEF OrderRead, Around
<1>4. PICK k \in 1..n : r[k] = w
  BY <1>3
<1>5. linked \subseteq Window /\ NoWindow \notin Window /\ next \in [Window -> Window \cup {NoWindow}]
  BY DEF OneRing, RingTypeOK, Window, NoWindow
<1>6. r \in Seq(linked) /\ Len(r) = n
  BY <1>2
<1> DEFINE q == SubSeq(r, k + 1, n) \o SubSeq(r, 1, k - 1)
           back == IF k > 1 THEN r[k - 1] ELSE r[n]
           ahead == IF k < n THEN r[k + 1] ELSE r[1]
<1>7. /\ n - 1 \in Nat /\ q = [i \in 1..(n - 1) |-> q[i]]
      /\ \A i \in 1..(n - 1) : q[i] = IF i <= n - k THEN r[k + i] ELSE r[i - (n - k)]
  <2> DEFINE a == SubSeq(r, k + 1, n)
             b == SubSeq(r, 1, k - 1)
  <2>1. /\ k + 1 \in 1..(Len(r) + 1) /\ n \in ((k + 1) - 1)..Len(r) /\ n - (k + 1) + 1 = n - k
        /\ 1 \in 1..(Len(r) + 1) /\ k - 1 \in (1 - 1)..Len(r) /\ (k - 1) - 1 + 1 = k - 1
        /\ n - 1 \in Nat /\ (n - k) + (k - 1) = n - 1
    BY <1>6
  <2>2. a \in Seq(linked) /\ Len(a) = n - k /\ \A i \in 1..(n - k) : a[i] = r[(k + 1) + i - 1]
    BY <1>6, <2>1, PartFacts
  <2>3. b \in Seq(linked) /\ Len(b) = k - 1 /\ \A i \in 1..(k - 1) : b[i] = r[1 + i - 1]
    BY <1>6, <2>1, PartFacts
  <2> HIDE DEF a, b
  <2>4. /\ a \o b = [i \in 1..(n - 1) |-> (a \o b)[i]]
        /\ \A i \in 1..(n - 1) : (a \o b)[i] = IF i <= n - k THEN a[i] ELSE b[i - (n - k)]
    <3>1. /\ a \o b = [i \in 1..(Len(a) + Len(b)) |-> (a \o b)[i]]
          /\ \A i \in 1..(Len(a) + Len(b)) : (a \o b)[i] = IF i <= Len(a) THEN a[i] ELSE b[i - Len(a)]
      BY <2>2, <2>3, JoinFacts
    <3>2. Len(a) = n - k /\ Len(a) + Len(b) = n - 1
      BY <2>1, <2>2, <2>3
    <3> QED
      BY <3>1, <3>2, Zenon
  <2>5. ASSUME NEW i \in 1..(n - 1)
        PROVE  (a \o b)[i] = IF i <= n - k THEN r[k + i] ELSE r[i - (n - k)]
    <3>1. CASE i <= n - k
      <4>1. i \in 1..(n - k) /\ (k + 1) + i - 1 = k + i
        BY <3>1
      <4> QED
        BY <2>2, <2>4, <3>1, <4>1
    <3>2. CASE ~(i <= n - k)
      <4>1. i - (n - k) \in 1..(k - 1) /\ 1 + (i - (n - k)) - 1 = i - (n - k)
        BY <3>2
      <4> QED
        BY <2>3, <2>4, <3>2, <4>1
    <3> QED
      BY <3>1, <3>2
  <2> QED
    BY <2>1, <2>4, <2>5 DEF a, b
<1> HIDE DEF q
<1>8. /\ next[w] = ahead /\ prev[w] = back /\ HasLinks(w) /\ back \in linked
  <2>1. 1 \in 1..n /\ n \in 1..n /\ (k < n => k + 1 \in 1..n) /\ (k > 1 => k - 1 \in 1..n)
    OBVIOUS
  <2>2. next[w] = ahead /\ prev[w] = back
    BY <1>3, <1>4
  <2>3. ahead \in linked /\ back \in linked
    BY <1>2, <2>1
  <2> QED
    BY <1>5, <2>2, <2>3 DEF HasLinks
<1>9. /\ window_stack' = IF back = w THEN NoWindow ELSE ahead
      /\ next' = [next EXCEPT ![back] = ahead, ![w] = IF cleared THEN NoWindow ELSE @]
      /\ cur_num_windows' = n - 1
  BY <1>1, <1>8 DEF RemoveWindow
<1>10. ASSUME NEW i \in 1..n, r[i] # w, r[i] # back
       PROVE  next'[r[i]] = IF i < n THEN r[i + 1] ELSE r[1]
  <2>1. r[i] \in Window
    BY <1>5
  <2>2. next'[r[i]] = next[r[i]]
    BY <1>5, <1>9, <1>10, <2>1
  <2> QED
    BY <1>3, <2>2
<1>11. Walk(q, n - 1, next')
  <2>1. ASSUME NEW i \in 1..(n - 1), i < n - 1
        PROVE  next'[q[i]] = q[i + 1]
    <3>1. i + 1 \in 1..(n - 1)
      BY <2>1
    <3>2. CASE i < n - k
      <4>1. /\ k + i \in 1..n /\ k + i < n /\ k + i # k /\ i <= n - k /\ i + 1 <= n - k
            /\ (k + i) + 1 = k + (i + 1) /\ n \in 1..n /\ k + i # n
            /\ (k > 1 => k - 1 \in 1..n /\ k + i # k - 1)
        BY <3>2
      <4>2. r[k + i] # w /\ r[k + i] # back
        BY <1>3, <1>4, <4>1
      <4>3. next'[r[k + i]] = r[k + (i + 1)]
        BY <1>10, <4>1, <4>2
      <4> QED
        BY <1>7, <3>1, <4>1, <4>3
    <3>3. CASE i = n - k
      <4>1. /\ k + i = n /\ n \in 1..n /\ n # k /\ k > 1 /\ k - 1 \in 1..n /\ n # k - 1 /\ ~(n < n)
            /\ i <= n - k /\ ~(i + 1 <= n - k) /\ (i + 1) - (n - k) = 1
        BY <2>1, <3>3
      <4>2. r[n] # w /\ r[n] # back
        BY <1>3, <1>4, <4>1
      <4>3. next'[r[n]] = r[1]
        BY <1>10, <4>1, <4>2
      <4> QED
        BY <1>7, <3>1, <4>1, <4>3
    <3>4. CASE i > n - k
      <4>1. PICK j \in 1..n : j = i - (n - k)
        BY <2>1, <3>4
      <4>2. /\ j # k /\ k > 1 /\ k - 1 \in 1..n /\ j # k - 1 /\ j < n
            /\ ~(i <= n - k) /\ ~(i + 1 <= n - k) /\ (i + 1) - (n - k) = j + 1
        BY <2>1, <3>4, <4>1
      <4>3. r[j] # w /\ r[j] # back
        BY <1>3, <1>4, <4>2
      <4>4. next'[r[j]] = r[j + 1]
        BY <1>10, <4>2, <4>3
      <4> QED
        BY <1>7, <3>1, <4>1, <4>2, <4>4
    <3> QED
      BY <3>2, <3>3, <3>4
  <2> QED
    BY <1>7, <2>1 DEF Walk
<1>12. ASSUME n - 1 # 0
       PROVE  q[1] = window_stack'
  <2>1. 1 \in 1..(n - 1) /\ n \in 1..n /\ 1 \in 1..n
    BY <1>12
  <2>2. back # w
    <3>1. (k > 1 => k - 1 \in 1..n /\ k - 1 # k) /\ (~(k > 1) => n # k)
      BY <1>12
    <3> QED
      BY <1>3, <1>4, <2>1, <3>1
  <2>3. q[1] = ahead
    <3>1. CASE k < n
      <4>1. 1 <= n - k
        BY <3>1
      <4> QED
        BY <1>7, <2>1, <3>1, <4>1
    <3>2. CASE ~(k < n)
      <4>1. ~(1 <= n - k) /\ 1 - (n - k) = 1
        BY <3>2
      <4> QED
        BY <1>7, <2>1, <3>2, <4>1
    <3> QED
      BY <3>1, <3>2
  <2> QED
    BY <1>9, <2>2, <2>3
<1>13. Walk(InOrder', n - 1, next') /\ (n - 1 # 0 => InOrder'[1] = window_stack')
  BY <1>7, <1>9, ZenonT(60) DEF OrderRead, Around, Walk
<1>14. InOrder' = q
  BY <1>7, <1>11, <1>12, <1>13, OneWalk
<1>15. List!Remove(k)
  BY <1>2, <1>6, <1>14 DEF List!Remove, q
<1> QED
  BY <1>2, <1>6, <1>15

(* ALT-TAB.                                                                *)
LEMMA SwitchIsListed ==
    ASSUME OneRing, OrderRead, OneRing', OrderRead', SwitchWindow
    PROVE  List!SwitchToNext
<1>1. PICK n \in Nat : n = cur_num_windows
  BY DEF OneRing, RingTypeOK
<1>2. PICK r \in [1..n -> linked] : r = InOrder
  BY <1>1 DEF OrderRead
<1>3. /\ window_stack \in linked /\ n # 0 /\ r[1] = window_stack
      /\ window_stack' = next[window_stack] /\ next' = next /\ cur_num_windows' = n
  <2>1. window_stack \in linked
    BY DEF SwitchWindow, OneRing
  <2>2. \E i \in 1..n : r[i] = window_stack
    BY <1>1, <1>2, <2>1 DEF OrderRead, Around
  <2>3. n # 0
    BY <2>2
  <2> QED
    BY <1>1, <1>2, <2>1, <2>3 DEF SwitchWindow, OrderRead
<1>4. \A i \in 1..n : next[r[i]] = IF i < n THEN r[i + 1] ELSE r[1]
  BY <1>1, <1>2 DEF OrderRead, Around
<1>5. r \in Seq(linked) /\ Len(r) = n /\ r # <<>> /\ Head(r) = r[1] /\ 1 \in 1..n
      /\ Tail(r) \in Seq(linked) /\ Len(Tail(r)) = n - 1 /\ \A i \in 1..(n - 1) : Tail(r)[i] = r[i + 1]
  <2>1. r \in Seq(linked) /\ Len(r) = n /\ 1 \in 1..n
    BY <1>2, <1>3
  <2> QED
    BY <1>3, <2>1
<1> DEFINE q == Tail(r) \o <<Head(r)>>
<1>6. /\ q = [i \in 1..n |-> q[i]]
      /\ \A i \in 1..n : q[i] = IF i < n THEN r[i + 1] ELSE r[1]
  <2> DEFINE a == Tail(r)
             b == <<Head(r)>>
  <2>1. /\ a \in Seq(linked) /\ Len(a) = n - 1 /\ (n - 1) + 1 = n
        /\ b \in Seq(linked) /\ Len(b) = 1 /\ b[1] = r[1]
    BY <1>2, <1>5
  <2>2. \A i \in 1..(n - 1) : a[i] = r[i + 1]
    BY <1>5
  <2> HIDE DEF a, b
  <2>3. /\ a \o b = [i \in 1..n |-> (a \o b)[i]]
        /\ \A i \in 1..n : (a \o b)[i] = IF i <= n - 1 THEN a[i] ELSE b[i - (n - 1)]
    <3>1. /\ a \o b = [i \in 1..(Len(a) + Len(b)) |-> (a \o b)[i]]
          /\ \A i \in 1..(Len(a) + Len(b)) : (a \o b)[i] = IF i <= Len(a) THEN a[i] ELSE b[i - Len(a)]
      BY <2>1, JoinFacts
    <3>2. Len(a) = n - 1 /\ Len(a) + Len(b) = n
      BY <2>1
    <3> QED
      BY <3>1, <3>2, Zenon
  <2>4. \A i \in 1..n : (a \o b)[i] = IF i < n THEN r[i + 1] ELSE r[1]
    <3> TAKE i \in 1..n
    <3>1. CASE i < n
      <4>1. i <= n - 1 /\ i \in 1..(n - 1)
        BY <3>1
      <4> QED
        BY <2>2, <2>3, <3>1, <4>1
    <3>2. CASE ~(i < n)
      <4>1. ~(i <= n - 1) /\ i - (n - 1) = 1
        BY <3>2
      <4> QED
        BY <2>1, <2>3, <3>2, <4>1
    <3> QED
      BY <3>1, <3>2
  <2> QED
    BY <2>3, <2>4 DEF a, b
<1> HIDE DEF q
<1>7. Walk(q, n, next')
  <2>1. ASSUME NEW i \in 1..n, i < n
        PROVE  next'[q[i]] = q[i + 1]
    <3>1. i + 1 \in 1..n /\ q[i] = r[i + 1]
      BY <1>6, <2>1
    <3> QED
      BY <1>3, <1>4, <1>6, <3>1
  <2> QED
    BY <1>6, <2>1 DEF Walk
<1>8. q[1] = window_stack'
  BY <1>3, <1>4, <1>5, <1>6
<1>9. Walk(InOrder', n, next') /\ InOrder'[1] = window_stack'
  BY <1>3 DEF OrderRead, Around, Walk
<1>10. InOrder' = q
  BY <1>7, <1>8, <1>9, OneWalk
<1> QED
  BY <1>2, <1>5, <1>10 DEF List!SwitchToNext, q

LEMMA SameRingSameList ==
    ASSUME OneRing, OrderRead, OneRing', OrderRead', UNCHANGED ringVars
    PROVE  InOrder' = InOrder
<1>1. PICK n \in Nat : n = cur_num_windows
  BY DEF OneRing, RingTypeOK
<1>2. window_stack' = window_stack /\ next' = next /\ cur_num_windows' = n
  BY <1>1 DEF ringVars
<1>3. /\ Walk(InOrder, n, next) /\ Walk(InOrder', n, next)
      /\ n # 0 => InOrder[1] = window_stack /\ InOrder'[1] = window_stack
  BY <1>1, <1>2 DEF OrderRead, Around, Walk
<1> QED
  BY <1>3, OneWalk

(* Nothing else touches the ring, and nothing touches it wrongly.          *)
LEMMA RingSteps ==
    ASSUME CompositorInv, [Next]_vars
    PROVE  \/ \E w \in Window \ linked : PushWindow(w)
           \/ \E w \in linked, cleared \in BOOLEAN : RemoveWindow(w, cleared)
           \/ SwitchWindow
           \/ UNCHANGED ringVars
<1>1. CASE Execute
  <2> DEFINE m == Head(compositor_queue)
  <2>1. CASE Broken(m) # "none"
    BY <1>1, <2>1 DEF Execute, Faulty
  <2>2. CASE Broken(m) = "none"
    <3>1. m = compositor_queue[1] /\ 1 \in Queued /\ m \in Message
      BY <1>1, CommandTaken, QueueFacts DEF Execute, CompositorInv
    <3>2. m.window \in Window /\ m.command \in {"create", "destroy", "change"}
      BY <3>1 DEF Message, Command
    <3>3. CASE m.command = "create"
      <4>1. PushWindow(m.window) /\ m.window \notin linked
        BY <1>1, <2>2, <3>1, <3>3 DEF Execute, CompositorInv, RestInv, EnterInv
      <4> QED
        BY <3>2, <4>1
    <3>4. CASE m.command = "destroy"
      <4>1. RemoveWindow(m.window, TRUE) /\ ~OutButLinked(m.window)
        BY <1>1, <2>2, <3>4 DEF Execute, Broken
      <4>2. HasLinks(m.window) => m.window \in linked
        BY <4>1 DEF OutButLinked
      <4>3. ~HasLinks(m.window) => UNCHANGED ringVars
        BY <4>1 DEF RemoveWindow
      <4> QED
        BY <4>1, <4>2, <4>3
    <3>5. CASE m.command = "change"
      BY <1>1, <2>2, <3>5 DEF Execute
    <3> QED
      BY <3>2, <3>3, <3>4, <3>5
  <2> QED
    BY <2>1, <2>2
<1>2. CASE Cross
  <2>1. RemoveWindow(window_stack, TRUE) /\ window_stack \in linked
    BY <1>2 DEF Cross, CompositorInv, RingInv, OneRing
  <2> QED
    BY <2>1
<1>3. CASE DropOrphan
  <2>1. RemoveWindow(compositor.window, FALSE) /\ compositor.window \in linked
    BY <1>3 DEF DropOrphan, At, CompositorInv, RingInv
  <2> QED
    BY <2>1
<1>4. CASE AltTab
  BY <1>4 DEF AltTab
<1>5. CASE ReadsFreedCaller \/ NoMoreCommands \/ NoKey \/ CrossDelete \/ SeeOwner \/ DrawWindow
  BY <1>5 DEF ReadsFreedCaller, NoMoreCommands, NoKey, CrossDelete, SeeOwner, DrawWindow, Faulty
<1>6. CASE HadesStep
  BY <1>6 DEF HadesStep, HadesReceive, HadesTakesWindow, HadesSends, HadesDeletesInfo, HadesOnly, Faulty
<1>7. ASSUME NEW t \in Task, TaskStep(t)
      PROVE  UNCHANGED ringVars
  BY <1>7 DEF TaskStep, CheckRoom, Make, Destroy, Change, SendCommand, Return, Exit, ClientOnly
<1>8. CASE UNCHANGED vars
  BY <1>8 DEF vars
<1> QED
  BY <1>1, <1>2, <1>3, <1>4, <1>5, <1>6, <1>7, <1>8 DEF Next, Frame

LEMMA ListStep ==
    CompositorInv /\ CompositorInv' /\ OrderRead /\ OrderRead' /\ [Next]_vars => [List!Next]_InOrder
<1> SUFFICES ASSUME CompositorInv, CompositorInv', OrderRead, OrderRead', [Next]_vars
             PROVE  List!Next \/ InOrder' = InOrder
  OBVIOUS
<1>1. OneRing /\ OneRing'
  BY DEF CompositorInv, RingInv
<1>2. ASSUME NEW w \in Window \ linked, PushWindow(w)
      PROVE  List!Next
  BY <1>1, <1>2, PushIsListed DEF List!Next
<1>3. ASSUME NEW w \in linked, NEW cleared \in BOOLEAN, RemoveWindow(w, cleared)
      PROVE  List!Next
  BY <1>1, <1>3, RemoveIsListed DEF List!Next
<1>4. CASE SwitchWindow
  BY <1>1, <1>4, SwitchIsListed DEF List!Next
<1>5. CASE UNCHANGED ringVars
  BY <1>1, <1>5, SameRingSameList
<1> QED
  BY <1>2, <1>3, <1>4, <1>5, RingSteps

LEMMA ListStart == CompositorInit => List!Init
<1> SUFFICES ASSUME CompositorInit PROVE InOrder = <<>>
  BY DEF List!Init
<1>1. cur_num_windows = 0
  BY DEF CompositorInit, RingInit
<1> QED
  BY <1>1 DEF InOrder

(* push_window, remove_window and ALT-TAB: following `next' from the focus *)
(* meets the windows of a list, in which each window that comes is first,  *)
(* the one behind a window that goes is first, and ALT-TAB turns the list. *)
THEOREM RingImplementsList == SafetySpec => ListSpec
<1>1. CompositorInit => List!Init
  BY ListStart
<1>2. CompositorInv /\ CompositorInv' /\ OrderRead /\ OrderRead' /\ [Next]_vars => [List!Next]_InOrder
  BY ListStep
<1>3. CompositorInv => OrderRead
  BY OrderIsRead DEF CompositorInv, RingInv
<1> QED
  BY <1>1, <1>2, <1>3, CompositorInvariance, PTL DEF SafetySpec, ListSpec, List!Spec
=============================================================================
